---- MODULE Spec2Model ----
(***************************************************************************)
(* Telemetry derivation layer of geotab-tracker: vehicleUtils.js           *)
(* (fetchOdometer, fetchFuelConsumption, calculateFuelEfficiency,          *)
(* isPointInPolygon, calculateDistance, groupFaultsByDiagnostic,           *)
(* fetchFaultCodes, fetchAccelerometerData and its alternative,            *)
(* combineAccelerometerData), retryApiCall of the API helpers,             *)
(* fetchGForceData of GForceChart.jsx, and of VehicleMap.jsx the geofence  *)
(* status effect, fetchFaultData and the effect on the selected vehicle.   *)
(*                                                                         *)
(* Each async function is a small state machine: one action per segment    *)
(* between two awaits.  The Geotab server is the environment: it answers a *)
(* request in flight with a resolved payload or with a rejection.  The     *)
(* synchronous functions are called with arguments drawn from bounded sets. *)
(***************************************************************************)
EXTENDS Integers, Sequences, FiniteSets, TLC

VARIABLES
    \* fetchOdometer
    odoPc, odoIdx, latestOdometer, odoInFlight, odoCalls, odoLog, odoThrown,
    odoOutcomes,
    \* fetchFuelConsumption
    fuelPc, fuelIdx, fuelData, fuelSeen,
    \* calculateFuelEfficiency
    effPc, effResponse, effResult, effDivided,
    \* VehicleMap: geofence status
    vehicleLocation, zones, currentGeofenceStatus, zonesPc, effectPending,
    zonesEvaluated,
    \* isPointInPolygon, called on its own
    pipPc, pipPoint, pipRing, pipResult,
    \* groupFaultsByDiagnostic, fetchFaultCodes and fetchFaultData
    faultPc, faults, faultResponse, faultOutcome, groupedFaultCodes,
    faultsError, isLoadingFaults,
    \* fetchAccelerometerData
    accPc, accPrimary, accAlternative, accCalls, accOutcome,
    \* GForceChart: fetchGForceData
    gfPc, accelerometerData, gForceData, stats, gForceError,
    \* retryApiCall
    retryPc, maxRetries, delay, attempt, lastError, retryAttempts,
    retryWaits, retryOutcome,
    \* VehicleMap: the selection effect and its three requests
    selectedVehicleId, inFlight, isLoading, shown, lastSettled, selections

odoVars == <<odoPc, odoIdx, latestOdometer, odoInFlight, odoCalls, odoLog,
             odoThrown, odoOutcomes>>

fuelVars == <<fuelPc, fuelIdx, fuelData, fuelSeen>>

effVars == <<effPc, effResponse, effResult, effDivided>>

geoVars == <<vehicleLocation, zones, currentGeofenceStatus, zonesPc,
             effectPending, zonesEvaluated>>

pipVars == <<pipPc, pipPoint, pipRing, pipResult>>

faultVars == <<faultPc, faults, faultResponse, faultOutcome,
               groupedFaultCodes, faultsError, isLoadingFaults>>

accVars == <<accPc, accPrimary, accAlternative, accCalls, accOutcome>>

gfVars == <<gfPc, accelerometerData, gForceData, stats, gForceError>>

retryVars == <<retryPc, maxRetries, delay, attempt, lastError, retryAttempts,
               retryWaits, retryOutcome>>

selVars == <<selectedVehicleId, inFlight, isLoading, shown, lastSettled,
             selections>>

\* The accelerometer, G-force, retry and selection components together.
laterVars == <<accVars, gfVars, retryVars, selVars>>

vars == <<odoVars, fuelVars, effVars, geoVars, pipVars, faultVars,
          laterVars>>

\* What an action of one component leaves alone: the other components.
odoFrame == <<fuelVars, effVars, geoVars, pipVars, faultVars,
              laterVars>>
fuelFrame == <<odoVars, effVars, geoVars, pipVars, faultVars,
               laterVars>>
effFrame == <<odoVars, fuelVars, geoVars, pipVars, faultVars,
              laterVars>>
geoFrame == <<odoVars, fuelVars, effVars, pipVars, faultVars,
              laterVars>>
pipFrame == <<odoVars, fuelVars, effVars, geoVars, faultVars,
              laterVars>>
faultFrame == <<odoVars, fuelVars, effVars, geoVars, pipVars,
                laterVars>>
earlierVars == <<odoVars, fuelVars, effVars, geoVars, pipVars, faultVars>>
accFrame == <<earlierVars, gfVars, retryVars, selVars>>
gfFrame == <<earlierVars, accVars, retryVars, selVars>>
retryFrame == <<earlierVars, accVars, gfVars, selVars>>
selFrame == <<earlierVars, accVars, gfVars, retryVars>>

----------------------------------------------------------------------------
(* Values.  A JavaScript value that may be null/undefined is a sequence of  *)
(* length 0 (null) or 1 (the value).                                        *)

Null == <<>>
Some(v) == <<v>>
IsNull(o) == o = <<>>

(* Bounds of the explored inputs. *)
MaxSeriesLen == 2
MaxDateTime == 2

DateTimes == 1..MaxDateTime

SeqsUpTo(S, n) == UNION {[1..k -> S] : k \in 0..n}

----------------------------------------------------------------------------
(* Array.prototype.sort with the comparator                                 *)
(*   (a, b) => new Date(b.dateTime) - new Date(a.dateTime)                  *)
(* The sort is stable: samples with equal dateTime keep their arrival       *)
(* order.  Computed as an insertion sort.                                   *)

RECURSIVE InsertDesc(_, _)
InsertDesc(x, s) ==
    IF s = <<>> THEN <<x>>
    ELSE IF Head(s).dateTime >= x.dateTime
         THEN <<Head(s)>> \o InsertDesc(x, Tail(s))
         ELSE <<x>> \o s

RECURSIVE SortDescPrefix(_, _)
SortDescPrefix(s, n) ==
    IF n = 0 THEN <<>> ELSE InsertDesc(s[n], SortDescPrefix(s, n - 1))

SortByDateTimeDesc(s) == SortDescPrefix(s, Len(s))

(* The same with (a, b) => new Date(a.dateTime) - new Date(b.dateTime).     *)

RECURSIVE InsertAsc(_, _)
InsertAsc(x, s) ==
    IF s = <<>> THEN <<x>>
    ELSE IF Head(s).dateTime <= x.dateTime
         THEN <<Head(s)>> \o InsertAsc(x, Tail(s))
         ELSE <<x>> \o s

RECURSIVE SortAscPrefix(_, _)
SortAscPrefix(s, n) ==
    IF n = 0 THEN <<>> ELSE InsertAsc(s[n], SortAscPrefix(s, n - 1))

\* The series used as it arrived.
SortByDateTimeAscOmitted(s) == s

SortByDateTimeAsc(s) == SortAscPrefix(s, Len(s))

----------------------------------------------------------------------------
(* What a series holds, stated without sorting: used by the request logs    *)
(* and by the properties.                                                   *)

\* Position of the latest sample: maximal dateTime, earliest arrival on a tie.
LatestIndex(s) ==
    CHOOSE i \in 1..Len(s) :
        /\ \A j \in 1..Len(s) : s[j].dateTime <= s[i].dateTime
        /\ \A j \in 1..(i - 1) : s[j].dateTime < s[i].dateTime

\* data of the latest sample, Null for an empty series.
LatestReading(s) == IF s = <<>> THEN Null ELSE s[LatestIndex(s)].data

NonNullSamples(s) == SelectSeq(s, LAMBDA x : ~IsNull(x.data))

\* data of the latest sample among those whose data is non-null.
LatestNonNullReading(s) == LatestReading(NonNullSamples(s))

----------------------------------------------------------------------------
(* fetchOdometer                                                            *)

diagnostics ==
    << "DiagnosticOdometerId",
       "DiagnosticOBDOdometerReaderId",
       "DiagnosticJ1939TotalVehicleDistanceId",
       "DiagnosticJ1708TotalVehicleDistanceId",
       "DiagnosticOdometerAdjustmentId" >>

OdoData == {Null, Some(500), Some(700)}
OdoSamples == [dateTime : DateTimes, data : OdoData]
OdoSeries == SeqsUpTo(OdoSamples, MaxSeriesLen)

(* What axios.post settles with: a rejection (transport failure), a payload *)
(* with an error field and no result, or a payload with a result array.     *)
Rejected == [kind |-> "rejected", result |-> <<>>]
ErrorPayload == [kind |-> "error", result |-> <<>>]
ResultPayload(s) == [kind |-> "result", result |-> s]

OdoPayloads == {ErrorPayload} \cup {ResultPayload(s) : s \in OdoSeries}

\* if (result && result.length > 0): result is undefined in an error payload
OdoHasSamples(response) ==
    response.kind = "result" /\ Len(response.result) > 0

\* sorted[0].data !== undefined && sorted[0].data !== null  => assign, break
OdoHit(response) ==
    /\ OdoHasSamples(response)
    /\ ~IsNull(SortByDateTimeDesc(response.result)[1].data)

\* The reading taken from the wrong end of the sorted series.
OdoReadingOldest(response) ==
    SortByDateTimeDesc(response.result)[Len(response.result)].data

\* latestOdometer = sorted[0].data
OdoReading(response) == SortByDateTimeDesc(response.result)[1].data

\* A catch clause that rethrows.
OdoCatchRethrows == "throw"

\* catch (err) { console.warn(...) }: the loop goes on with the next candidate
OdoCatch == "continue"

\* An iteration that skips a candidate.
OdoNextCandidateSkips(i) == i + 2

\* for (const diagId of diagnostics): the candidate after candidate i
OdoNextCandidate(i) == i + 1

\* What the log keeps of an answered request.
OdoLogEntry(response) ==
    [ outcome |-> response.kind,
      empty |-> response.result = <<>>,
      latest |-> LatestReading(response.result),
      latestNonNull |-> LatestNonNullReading(response.result) ]

OdoAllFailed(log) ==
    /\ Len(log) = Len(diagnostics)
    /\ \A i \in 1..Len(log) : log[i].outcome \in {"rejected", "error"}

OdoAllEmpty(log) ==
    /\ Len(log) = Len(diagnostics)
    /\ \A i \in 1..Len(log) : log[i].outcome = "result" /\ log[i].empty

OdoInit ==
    /\ odoPc = "idle"
    /\ odoIdx = 1
    /\ latestOdometer = Null
    /\ odoInFlight = {}
    /\ odoCalls = <<>>
    /\ odoLog = <<>>
    /\ odoThrown = FALSE
    /\ odoOutcomes = {}

\* A caller invokes fetchOdometer: let latestOdometer = null; the loop starts.
OdoCall ==
    /\ odoPc = "idle"
    /\ odoPc' = "loop"
    /\ odoIdx' = 1
    /\ latestOdometer' = Null
    /\ odoInFlight' = {}
    /\ odoCalls' = <<>>
    /\ odoLog' = <<>>
    /\ odoThrown' = FALSE
    /\ UNCHANGED odoOutcomes
    /\ UNCHANGED odoFrame

\* await axios.post(...) for the current candidate: the request leaves.
OdoRequest ==
    /\ odoPc = "loop"
    /\ odoIdx <= Len(diagnostics)
    /\ odoInFlight' = odoInFlight \cup {diagnostics[odoIdx]}
    /\ odoCalls' = Append(odoCalls, diagnostics[odoIdx])
    /\ odoPc' = "await"
    /\ UNCHANGED <<odoIdx, latestOdometer, odoLog, odoThrown, odoOutcomes>>
    /\ UNCHANGED odoFrame

\* The request resolves: lines 209-216.
OdoResolved ==
    /\ odoPc = "await"
    /\ \E response \in OdoPayloads :
        /\ odoInFlight' = odoInFlight \ {diagnostics[odoIdx]}
        /\ odoLog' = Append(odoLog, OdoLogEntry(response))
        /\ IF OdoHit(response)
           THEN /\ latestOdometer' = OdoReading(response)
                /\ odoPc' = "return"
                /\ UNCHANGED odoIdx
           ELSE /\ odoIdx' = OdoNextCandidate(odoIdx)
                /\ odoPc' = "loop"
                /\ UNCHANGED latestOdometer
    /\ UNCHANGED <<odoCalls, odoThrown, odoOutcomes>>
    /\ UNCHANGED odoFrame

\* The request rejects: the catch clause, lines 217-219.
OdoRejected ==
    /\ odoPc = "await"
    /\ odoInFlight' = odoInFlight \ {diagnostics[odoIdx]}
    /\ odoLog' = Append(odoLog, OdoLogEntry(Rejected))
    /\ IF OdoCatch = "continue"
       THEN /\ odoIdx' = OdoNextCandidate(odoIdx)
            /\ odoPc' = "loop"
            /\ UNCHANGED <<odoThrown, odoOutcomes>>
       ELSE /\ odoPc' = "done"
            /\ odoThrown' = TRUE
            /\ UNCHANGED <<odoIdx, odoOutcomes>>
    /\ UNCHANGED <<latestOdometer, odoCalls>>
    /\ UNCHANGED odoFrame

\* return latestOdometer, after a break or with the candidates exhausted.
\* odoOutcomes keeps what the caller got from the invocations in which every
\* request failed and from those in which every request gave an empty series.
OdoReturn ==
    /\ \/ odoPc = "return"
       \/ odoPc = "loop" /\ odoIdx > Len(diagnostics)
    /\ odoPc' = "done"
    /\ odoOutcomes' =
          odoOutcomes
          \cup (IF OdoAllFailed(odoLog)
                THEN {[requests |-> "allFailed", returned |-> latestOdometer]}
                ELSE {})
          \cup (IF OdoAllEmpty(odoLog)
                THEN {[requests |-> "allEmpty", returned |-> latestOdometer]}
                ELSE {})
    /\ UNCHANGED <<odoIdx, latestOdometer, odoInFlight, odoCalls, odoLog,
                   odoThrown>>
    /\ UNCHANGED odoFrame

\* The caller invokes fetchOdometer again (fetchVehicleLocation does so on
\* every refresh whose status carries no odometer).
OdoCallAgain ==
    /\ odoPc = "done"
    /\ odoPc' = "loop"
    /\ odoIdx' = 1
    /\ latestOdometer' = Null
    /\ odoInFlight' = {}
    /\ odoCalls' = <<>>
    /\ odoLog' = <<>>
    /\ odoThrown' = FALSE
    /\ UNCHANGED odoOutcomes
    /\ UNCHANGED odoFrame

OdoNext == OdoCall \/ OdoRequest \/ OdoResolved \/ OdoRejected \/ OdoReturn

----------------------------------------------------------------------------
(* fetchFuelConsumption                                                     *)

(* The candidate identifiers, as sequences of characters: the slot of a     *)
(* candidate is decided by String.prototype.includes.                       *)
fuelDiagnostics ==
    << \* DiagnosticDeviceTotalFuelId
       << "D", "i", "a", "g", "n", "o", "s", "t", "i", "c", "D", "e",
          "v", "i", "c", "e", "T", "o", "t", "a", "l", "F", "u", "e",
          "l", "I", "d" >>,
       \* DiagnosticFuelUsedId
       << "D", "i", "a", "g", "n", "o", "s", "t", "i", "c", "F", "u",
          "e", "l", "U", "s", "e", "d", "I", "d" >>,
       \* DiagnosticFuelLevelId
       << "D", "i", "a", "g", "n", "o", "s", "t", "i", "c", "F", "u",
          "e", "l", "L", "e", "v", "e", "l", "I", "d" >>,
       \* DiagnosticOBDFuelLevelInputId
       << "D", "i", "a", "g", "n", "o", "s", "t", "i", "c", "O", "B",
          "D", "F", "u", "e", "l", "L", "e", "v", "e", "l", "I", "n",
          "p", "u", "t", "I", "d" >>,
       \* DiagnosticJ1939FuelLevelId
       << "D", "i", "a", "g", "n", "o", "s", "t", "i", "c", "J", "1",
          "9", "3", "9", "F", "u", "e", "l", "L", "e", "v", "e", "l",
          "I", "d" >>,
       \* DiagnosticJ1708FuelLevelId
       << "D", "i", "a", "g", "n", "o", "s", "t", "i", "c", "J", "1",
          "7", "0", "8", "F", "u", "e", "l", "L", "e", "v", "e", "l",
          "I", "d" >> >>

TotalFuelText == << "T", "o", "t", "a", "l", "F", "u", "e", "l" >>
FuelUsedText == << "F", "u", "e", "l", "U", "s", "e", "d" >>
FuelLevelText == << "F", "u", "e", "l", "L", "e", "v", "e", "l" >>

\* String.prototype.includes
Includes(str, sub) ==
    \E i \in 1..(Len(str) - Len(sub) + 1) :
        SubSeq(str, i, i + Len(sub) - 1) = sub

\* The slot the reading of a candidate is written to (lines 281-287).
FuelSlot(diagId) ==
    IF Includes(diagId, TotalFuelText) \/ Includes(diagId, FuelUsedText)
    THEN "totalFuel"
    ELSE IF Includes(diagId, FuelLevelText) THEN "fuelLevel" ELSE "none"

FuelReadings == {Null, Some(40), Some(80)}
FuelSamples == [dateTime : DateTimes, data : FuelReadings]
FuelSeries == SeqsUpTo(FuelSamples, MaxSeriesLen)
FuelPayloads == {ErrorPayload} \cup {ResultPayload(s) : s \in FuelSeries}

\* fuelData after the answer of candidate diagId (lines 275-289).
FuelMerge(data, diagId, response) ==
    IF response.kind = "result" /\ Len(response.result) > 0
    THEN LET latestReading == SortByDateTimeDesc(response.result)[1]
         IN  IF ~IsNull(latestReading.data)
             THEN IF FuelSlot(diagId) = "totalFuel"
                  THEN [data EXCEPT !.totalFuel = latestReading.data,
                                    !.lastUpdated = Some(latestReading.dateTime)]
                  ELSE IF FuelSlot(diagId) = "fuelLevel"
                       THEN [data EXCEPT
                                !.fuelLevel = latestReading.data,
                                !.lastUpdated = Some(latestReading.dateTime)]
                       ELSE data
             ELSE data
    ELSE data

FuelInit ==
    /\ fuelPc = "idle"
    /\ fuelIdx = 1
    /\ fuelData = [totalFuel |-> Null, fuelLevel |-> Null, lastUpdated |-> Null]
    /\ fuelSeen = <<>>

\* A caller invokes fetchFuelConsumption.
FuelCall ==
    /\ fuelPc = "idle"
    /\ fuelPc' = "loop"
    /\ fuelIdx' = 1
    /\ fuelData' = [totalFuel |-> Null, fuelLevel |-> Null,
                    lastUpdated |-> Null]
    /\ fuelSeen' = <<>>
    /\ UNCHANGED fuelFrame

\* await axios.post(...) for the current candidate.
FuelRequest ==
    /\ fuelPc = "loop"
    /\ fuelIdx <= Len(fuelDiagnostics)
    /\ fuelPc' = "await"
    /\ UNCHANGED <<fuelIdx, fuelData, fuelSeen>>
    /\ UNCHANGED fuelFrame

\* The request resolves.  fuelSeen keeps the latest reading each candidate
\* answered with (Null without one).
FuelResolved ==
    /\ fuelPc = "await"
    /\ \E response \in FuelPayloads :
        /\ fuelData' = FuelMerge(fuelData, fuelDiagnostics[fuelIdx], response)
        /\ fuelSeen' = Append(fuelSeen, LatestReading(response.result))
    /\ fuelIdx' = fuelIdx + 1
    /\ fuelPc' = "loop"
    /\ UNCHANGED fuelFrame

\* The request rejects: catch, warn, next candidate.
FuelRejected ==
    /\ fuelPc = "await"
    /\ fuelSeen' = Append(fuelSeen, Null)
    /\ fuelIdx' = fuelIdx + 1
    /\ fuelPc' = "loop"
    /\ UNCHANGED fuelData
    /\ UNCHANGED fuelFrame

\* return fuelData
FuelReturn ==
    /\ fuelPc = "loop"
    /\ fuelIdx > Len(fuelDiagnostics)
    /\ fuelPc' = "done"
    /\ UNCHANGED <<fuelIdx, fuelData, fuelSeen>>
    /\ UNCHANGED fuelFrame

FuelNext ==
    FuelCall \/ FuelRequest \/ FuelResolved \/ FuelRejected \/ FuelReturn

----------------------------------------------------------------------------
(* calculateFuelEfficiency                                                  *)

(* JavaScript numbers are modelled as exact fractions in lowest terms with  *)
(* a positive denominator; a division by zero gives num/0 with num the sign *)
(* (Infinity, -Infinity, or NaN for 0/0), and no exception.                 *)

Abs(n) == IF n < 0 THEN -n ELSE n

Sign(n) == IF n < 0 THEN -1 ELSE IF n > 0 THEN 1 ELSE 0

RECURSIVE Gcd(_, _)
Gcd(a, b) == IF b = 0 THEN a ELSE Gcd(b, a % b)

Rat(n, d) ==
    IF d = 0 THEN [num |-> Sign(n), den |-> 0]
    ELSE LET g == Gcd(Abs(n), Abs(d))
         IN  [num |-> (Sign(d) * n) \div g, den |-> Abs(d) \div g]

RatDiv(a, b) == Rat(a.num * b.den, a.den * b.num)

RatMul(a, b) == Rat(a.num * b.num, a.den * b.den)

RatOfInt(n) == Rat(n, 1)

OdometerReadings == {1000, 11000}
LitreReadings == {5, 6}
EffOdoSeries ==
    SeqsUpTo([dateTime : DateTimes, data : OdometerReadings], MaxSeriesLen)
EffFuelSeries ==
    SeqsUpTo([dateTime : DateTimes, data : LitreReadings], MaxSeriesLen)

(* The payload of the MultiCall: an error payload, or a result array with   *)
(* one series per call; arrays with fewer than two entries are included.    *)
EffPayloads ==
    {ErrorPayload, ResultPayload(<<>>), ResultPayload(<< <<>> >>)}
    \cup {ResultPayload(<<o, f>>) : o \in EffOdoSeries, f \in EffFuelSeries}

hours == 24

\* The zero-distance test left out.
EffStationaryNever(distance) == FALSE

\* if (distance === 0) return null
EffStationary(distance) == distance = 0

\* distance / 1000
EffKilometres(distance) == RatDiv(RatOfInt(distance), RatOfInt(1000))

\* Lines 352-385 on a resolved payload: the value returned and whether the
\* division of line 372 was executed.
CalcEfficiency(response) ==
    IF response.kind = "result" /\ Len(response.result) >= 2
    THEN LET odometerData == response.result[1]
             fuelUsedData == response.result[2]
         IN  IF Len(odometerData) = 0 \/ Len(fuelUsedData) = 0
             THEN [value |-> Null, divided |-> FALSE]
             ELSE LET sortedOdometer == SortByDateTimeAsc(odometerData)
                      sortedFuel == SortByDateTimeAsc(fuelUsedData)
                      distance == sortedOdometer[Len(sortedOdometer)].data
                                  - sortedOdometer[1].data
                      fuelUsed == sortedFuel[Len(sortedFuel)].data
                                  - sortedFuel[1].data
                  IN  IF EffStationary(distance)
                      THEN [value |-> Null, divided |-> FALSE]
                      ELSE [value |->
                              Some([efficiency |->
                                       RatMul(RatDiv(RatOfInt(fuelUsed),
                                                     EffKilometres(distance)),
                                              RatOfInt(100)),
                                    distance |-> EffKilometres(distance),
                                    fuelUsed |-> fuelUsed,
                                    period |-> hours]),
                            divided |-> TRUE]
    ELSE [value |-> Null, divided |-> FALSE]

EffInit ==
    /\ effPc = "idle"
    /\ effResponse = Rejected
    /\ effResult = Null
    /\ effDivided = FALSE

\* A caller invokes calculateFuelEfficiency: await axios.post(MultiCall).
EffCall ==
    /\ effPc = "idle"
    /\ effPc' = "await"
    /\ UNCHANGED <<effResponse, effResult, effDivided>>
    /\ UNCHANGED effFrame

\* The MultiCall resolves: lines 352-380, or the return null of line 385.
EffResolved ==
    /\ effPc = "await"
    /\ \E response \in EffPayloads :
        /\ effResponse' = response
        /\ effResult' = CalcEfficiency(response).value
        /\ effDivided' = CalcEfficiency(response).divided
    /\ effPc' = "done"
    /\ UNCHANGED effFrame

\* The MultiCall rejects: catch, warn, return null.
EffRejected ==
    /\ effPc = "await"
    /\ effResponse' = Rejected
    /\ effResult' = Null
    /\ effDivided' = FALSE
    /\ effPc' = "done"
    /\ UNCHANGED effFrame

EffNext == EffCall \/ EffResolved \/ EffRejected

----------------------------------------------------------------------------
(* Geospatial primitives                                                    *)

(* Number arithmetic.  Every operator of the source rounds its exact result *)
(* to the nearest representable value, ties to even (IEEE 754).  The values *)
(* are exact fractions; Precision is the number of significand bits kept    *)
(* (53 in the source's Number type), the exponent range is not bounded.     *)
Precision == 5

RECURSIVE Pow2(_)
Pow2(k) == IF k = 0 THEN 1 ELSE 2 * Pow2(k - 1)

\* Significands are the integers of [MinSignificand, MaxSignificand).
MaxSignificand == Pow2(Precision)

MinSignificand == Pow2(Precision - 1)

RoundHalfEven(n, d) ==
    LET q == n \div d
        r == n % d
    IN  IF 2 * r < d THEN q
        ELSE IF 2 * r > d THEN q + 1
        ELSE IF q % 2 = 0 THEN q ELSE q + 1

\* n/d > 0 brought into [MinSignificand, MaxSignificand) as
\* (n * up)/(d * down), rounded to an integer there and scaled back.
RECURSIVE FlScaled(_, _, _, _)
FlScaled(n, d, up, down) ==
    IF n * up >= d * down * MaxSignificand
    THEN FlScaled(n, d, up, 2 * down)
    ELSE IF n * up < d * down * MinSignificand
         THEN FlScaled(n, d, 2 * up, down)
         ELSE Rat(RoundHalfEven(n * up, d * down) * down, up)

\* Zero, the infinities and the integers below MaxSignificand are
\* representable as they are.
Fl(q) ==
    IF q.num = 0 \/ q.den = 0 THEN q
    ELSE IF q.den = 1 /\ Abs(q.num) < MaxSignificand THEN q
    ELSE LET r == FlScaled(Abs(q.num), q.den, 1, 1)
         IN  Rat(Sign(q.num) * r.num, r.den)

NumSub(a, b) == Fl(Rat(a.num * b.den - b.num * a.den, a.den * b.den))

NumAdd(a, b) == Fl(Rat(a.num * b.den + b.num * a.den, a.den * b.den))

NumMul(a, b) == Fl(RatMul(a, b))

NumDiv(a, b) == Fl(RatDiv(a, b))

\* a < b and a > b on finite values
NumLess(a, b) == a.num * b.den < b.num * a.den

NumGreater(a, b) == NumLess(b, a)

(* A position: latitude and longitude in degrees.                           *)
LatLon(lat, lon) == [latitude |-> lat, longitude |-> lon]

(* Positions of the vehicle and of the zone centers: whole degrees on a     *)
(* small grid, and one position off the grid whose longitude is the lesser  *)
(* of the two values the ray casting computes for one third.                *)
Degrees == 0..2

GridPosition(lat, lon) == LatLon(RatOfInt(lat), RatOfInt(lon))

GridPositions == {GridPosition(lat, lon) : lat \in Degrees, lon \in Degrees}

Third == Fl(Rat(1, 3))

ThirdFromAbove == NumSub(RatOfInt(1), Fl(Rat(2, 3)))

NearThird == IF NumLess(Third, ThirdFromAbove) THEN Third ELSE ThirdFromAbove

OffGridPosition == LatLon(RatOfInt(1), NearThird)

Positions == GridPositions \cup {OffGridPosition}

(* calculateDistance (Haversine, R = 6371e3) between two grid positions, in *)
(* metres rounded to the nearest metre, tabulated from the formula of the   *)
(* source: DistanceTable[lat1 + 1][lat2 + 1][|lon2 - lon1| + 1].            *)
DistanceTable ==
    << << <<0, 111195, 222390>>,
          <<111195, 157249, 248629>>,
          <<222390, 248629, 314475>> >>,
       << <<111195, 157249, 248629>>,
          <<0, 111178, 222356>>,
          <<111195, 157225, 248569>> >>,
       << <<222390, 248629, 314475>>,
          <<111195, 157225, 248569>>,
          <<0, 111127, 222254>> >> >>

(* The same from the position off the grid (latitude 1, longitude one       *)
(* third) to the grid positions: OffGridDistanceTable[lat + 1][lon + 1].    *)
OffGridDistanceTable ==
    << <<117209, 133638, 216116>>,
       <<37059, 74119, 185297>>,
       <<117206, 133625, 216068>> >>

calculateDistance(latlon1, latlon2) ==
    IF latlon1 = latlon2 THEN 0
    ELSE IF latlon1 = OffGridPosition
    THEN OffGridDistanceTable[latlon2.latitude.num + 1]
                             [latlon2.longitude.num + 1]
    ELSE IF latlon2 = OffGridPosition
    THEN OffGridDistanceTable[latlon1.latitude.num + 1]
                             [latlon1.longitude.num + 1]
    ELSE DistanceTable[latlon1.latitude.num + 1][latlon2.latitude.num + 1]
                      [Abs(latlon2.longitude.num - latlon1.longitude.num) + 1]

(* isPointInPolygon: ray casting with x = longitude, y = latitude; polygon  *)
(* is a sequence of <<latitude, longitude>> pairs.                          *)

\* ((yi > y) !== (yj > y)) && (x < (xj - xi) * (y - yi) / (yj - yi) + xi);
\* yj # yi when the first conjunct holds.
Intersects(point, pi, pj) ==
    LET x == point.longitude
        y == point.latitude
        xi == pi[2]
        yi == pi[1]
        xj == pj[2]
        yj == pj[1]
    IN  /\ NumGreater(yi, y) # NumGreater(yj, y)
        /\ NumLess(x, NumAdd(NumDiv(NumMul(NumSub(xj, xi), NumSub(y, yi)),
                                    NumSub(yj, yi)),
                             xi))

\* A loop that leaves out the edge from the last vertex back to the first.
RECURSIVE InsideAfterOpen(_, _, _)
InsideAfterOpen(point, polygon, n) ==
    IF n <= 1 THEN FALSE
    ELSE LET before == InsideAfterOpen(point, polygon, n - 1)
         IN  IF Intersects(point, polygon[n], polygon[n - 1])
             THEN ~before
             ELSE before

\* inside after the iterations i = 0 .. n-1 of the loop (j = i - 1, and
\* j = polygon.length - 1 in the first one).
RECURSIVE InsideAfter(_, _, _)
InsideAfter(point, polygon, n) ==
    IF n = 0 THEN FALSE
    ELSE LET j == IF n = 1 THEN Len(polygon) ELSE n - 1
             before == InsideAfter(point, polygon, n - 1)
         IN  IF Intersects(point, polygon[n], polygon[j])
             THEN ~before
             ELSE before

isPointInPolygon(point, polygon) == InsideAfter(point, polygon, Len(polygon))

----------------------------------------------------------------------------
(* isPointInPolygon called with a point and a ring                          *)

(* Ring vertices are [latitude, longitude] pairs in whole degrees.          *)
MaxCorner == 3

Corners == 0..MaxCorner

RingVertices == {<<lat, lon>> : lat \in Corners, lon \in Corners}

\* Rings of length 0, 1 and 2.
ShortRings == SeqsUpTo(RingVertices, 2)

\* The ring of an axis-aligned rectangle, from corner (lat1, lon1) through
\* (lat1, lon2), as in [[0,0],[0,2],[2,2],[2,0]].
Rectangle(lat1, lon1, lat2, lon2) ==
    << <<lat1, lon1>>, <<lat1, lon2>>, <<lat2, lon2>>, <<lat2, lon1>> >>

Reversed(ring) == [i \in 1..Len(ring) |-> ring[Len(ring) + 1 - i]]

\* The same ring starting at vertex k + 1.
Rotated(ring, k) ==
    [i \in 1..Len(ring) |-> ring[((i - 1 + k) % Len(ring)) + 1]]

RectangleRings ==
    UNION { UNION { {Rotated(r, k), Rotated(Reversed(r), k)} :
                       k \in 0..3 } :
              r \in {Rectangle(lat1, lon1, lat2, lon2) :
                        lat1 \in Corners, lat2 \in Corners,
                        lon1 \in Corners, lon2 \in Corners} }

ProperRectangleRings ==
    {r \in RectangleRings :
        \E i, j \in 1..4 : r[i][1] < r[j][1] /\ r[i][2] < r[j][2]}

PipRings == ShortRings \cup ProperRectangleRings

\* Points around and inside the rings: whole degrees, and the fractional
\* longitude NearThird.
PointDegrees == 0..(MaxCorner + 2)

PipPoints ==
    {GridPosition(lat, lon) : lat \in PointDegrees, lon \in PointDegrees}
    \cup {LatLon(RatOfInt(lat), NearThird) : lat \in PointDegrees}

\* The ring as an array of [latitude, longitude] Numbers.
RingOfDegrees(ring) ==
    [i \in 1..Len(ring) |-> <<RatOfInt(ring[i][1]), RatOfInt(ring[i][2])>>]

PipInit ==
    /\ pipPc = "idle"
    /\ pipPoint = GridPosition(0, 0)
    /\ pipRing = <<>>
    /\ pipResult = FALSE

\* A caller invokes isPointInPolygon(point, polygon).
PipCall ==
    /\ pipPc = "idle"
    /\ \E point \in PipPoints, ring \in PipRings :
        /\ pipPoint' = point
        /\ pipRing' = ring
    /\ pipPc' = "called"
    /\ UNCHANGED pipResult
    /\ UNCHANGED pipFrame

\* Lines 151-161: return inside.
PipReturn ==
    /\ pipPc = "called"
    /\ pipResult' = isPointInPolygon(pipPoint, RingOfDegrees(pipRing))
    /\ pipPc' = "done"
    /\ UNCHANGED <<pipPoint, pipRing>>
    /\ UNCHANGED pipFrame

PipNext == PipCall \/ PipReturn

----------------------------------------------------------------------------
(* VehicleMap: zones, vehicle location and the geofence status effect       *)

(* Zones as the Zone request returns them; a field that is absent is Null.  *)
Zone(name, geometryType, points, center, radius) ==
    [ name |-> name, geometryType |-> geometryType, points |-> points,
      center |-> center, radius |-> radius ]

\* A polygon point and a circle center of the zone list: whole degrees.
XY(x, y) == [x |-> x, y |-> y]

Center(lat, lon) == LatLon(lat, lon)

ZoneCatalog ==
    { \* longitude 0..2, latitude 0..4
      Zone("Depot", "Polygon",
           Some(<<XY(0, 0), XY(2, 0), XY(2, 4), XY(0, 4)>>), Null, Null),
      \* longitude 0..4, latitude 0..2
      Zone("Yard", "Polygon",
           Some(<<XY(0, 0), XY(4, 0), XY(4, 2), XY(0, 2)>>), Null, Null),
      Zone("Tower", "Circle", Null, Some(Center(1, 1)), Some(120000)),
      \* a circle through the grid positions one degree east and west of
      \* its center
      Zone("Ring", "Circle", Null, Some(Center(1, 1)),
           Some(calculateDistance(GridPosition(1, 1), GridPosition(1, 2)))),
      \* a circle of radius 0
      Zone("Point", "Circle", Null, Some(Center(1, 1)), Some(0)),
      \* zones without usable geometry
      Zone("NoPoints", "Polygon", Null, Null, Null),
      Zone("Empty", "Polygon", Some(<<>>), Null, Null),
      Zone("Dot", "Polygon", Some(<<XY(1, 1)>>), Null, Null),
      Zone("Segment", "Polygon", Some(<<XY(0, 0), XY(1, 3)>>), Null, Null),
      Zone("NoRadius", "Circle", Null, Some(Center(1, 1)), Null),
      Zone("NoCenter", "Circle", Null, Null, Some(120000)),
      Zone("Route", "LineString", Null, Null, Null) }

MaxZones == 2

ZoneLists == SeqsUpTo(ZoneCatalog, MaxZones)

\* A status text, with the zone name of `Inside: ${zone.name}`.
Status(text, name) == [text |-> text, name |-> name]

Determining == Status("Determining status...", "")
NoLocation == Status("No location data available.", "")
NotSelected == Status("Not authenticated or no vehicle selected.", "")
OutsideAll == Status("Outside all geofences", "")
NoGeofences == Status("No geofences loaded or configured.", "")
Inside(zone) == Status("Inside: ", zone.name)

\* zone.geometryType === 'Polygon' && zone.points && zone.points.length > 0
IsPolygonZone(zone) ==
    /\ zone.geometryType = "Polygon"
    /\ zone.points # Null
    /\ Len(zone.points[1]) > 0

\* zone.geometryType === 'Circle' && zone.center && zone.radius
IsCircleZone(zone) ==
    /\ zone.geometryType = "Circle"
    /\ zone.center # Null
    /\ zone.radius # Null
    /\ zone.radius[1] # 0

\* A comparison that leaves the boundary out.
WithinRadiusStrict(distance, radius) == distance < radius

\* distance <= zone.radius
WithinRadius(distance, radius) == distance <= radius

\* The test of one loop iteration (lines 225-240).
ZoneMatches(zone, vehiclePoint) ==
    IF IsPolygonZone(zone)
    THEN LET polygonPositionsForCheck ==
                 [i \in 1..Len(zone.points[1]) |->
                     <<RatOfInt(zone.points[1][i].y),
                       RatOfInt(zone.points[1][i].x)>>]
         IN  isPointInPolygon(vehiclePoint, polygonPositionsForCheck)
    ELSE IF IsCircleZone(zone)
         THEN LET centerPoint == GridPosition(zone.center[1].latitude,
                                              zone.center[1].longitude)
                  distance == calculateDistance(vehiclePoint, centerPoint)
              IN  WithinRadius(distance, zone.radius[1])
         ELSE FALSE

\* A loop that goes on after a match: the last matching zone sets the status.
RECURSIVE ScanZonesNoBreak(_, _, _)
ScanZonesNoBreak(zs, i, vehiclePoint) ==
    IF i > Len(zs)
    THEN [status |-> OutsideAll, evaluated |-> Len(zs)]
    ELSE LET rest == ScanZonesNoBreak(zs, i + 1, vehiclePoint)
         IN  IF rest.status # OutsideAll THEN rest
             ELSE IF ZoneMatches(zs[i], vehiclePoint)
                  THEN [status |-> Inside(zs[i]), evaluated |-> Len(zs)]
                  ELSE rest

\* for (const zone of zones) from zone i on: the status set and the number
\* of zones the loop has looked at (lines 222-244).
RECURSIVE ScanZones(_, _, _)
ScanZones(zs, i, vehiclePoint) ==
    IF i > Len(zs)
    THEN [status |-> OutsideAll, evaluated |-> Len(zs)]
    ELSE IF ZoneMatches(zs[i], vehiclePoint)
         THEN [status |-> Inside(zs[i]), evaluated |-> i]
         ELSE ScanZones(zs, i + 1, vehiclePoint)

\* A test that lets the loop run on an empty list.
HasZonesAlways(zs) == TRUE

\* if (zones.length > 0)
HasZones(zs) == Len(zs) > 0

\* The body of the effect (lines 215-247).
EvaluateGeofence(location, zs) ==
    IF location = Null
    THEN [status |-> NoLocation, evaluated |-> 0]
    ELSE IF HasZones(zs)
         THEN ScanZones(zs, 1, LatLon(location[1].latitude,
                                      location[1].longitude))
         ELSE [status |-> NoGeofences, evaluated |-> 0]

GeoInit ==
    /\ vehicleLocation = Null
    /\ zones = <<>>
    /\ currentGeofenceStatus = Determining
    /\ zonesPc = "await"
    /\ effectPending = TRUE
    /\ zonesEvaluated = 0

\* The geofence effect with [vehicleLocation] as its dependency list: a new
\* zones array schedules nothing.
EffectOnLocationOnly(pending) == pending

\* useEffect(..., [vehicleLocation, zones]): a new zones array schedules the
\* effect.
EffectOnZones(pending) == TRUE

\* fetchZones resolves with a result: setZones(result).
ZonesLoaded ==
    /\ zonesPc = "await"
    /\ \E zs \in ZoneLists : zones' = zs
    /\ zonesPc' = "done"
    /\ effectPending' = EffectOnZones(effectPending)
    /\ UNCHANGED <<vehicleLocation, currentGeofenceStatus, zonesEvaluated>>
    /\ UNCHANGED geoFrame

\* fetchZones fails (error payload or rejection): zones is left as it is.
ZonesFailed ==
    /\ zonesPc = "await"
    /\ zonesPc' = "done"
    /\ UNCHANGED <<vehicleLocation, zones, currentGeofenceStatus,
                   effectPending, zonesEvaluated>>
    /\ UNCHANGED geoFrame

\* fetchVehicleLocation resolves with a status: setVehicleLocation({...}).
LocationLoaded ==
    /\ \E p \in Positions : vehicleLocation' = Some(p)
    /\ effectPending' = TRUE
    /\ UNCHANGED <<zones, currentGeofenceStatus, zonesPc, zonesEvaluated>>
    /\ UNCHANGED geoFrame

\* fetchVehicleLocation resolves without a status: setVehicleLocation(null).
\* The effect is scheduled when the state changes.
LocationMissing ==
    /\ vehicleLocation # Null
    /\ vehicleLocation' = Null
    /\ effectPending' = TRUE
    /\ UNCHANGED <<zones, currentGeofenceStatus, zonesPc, zonesEvaluated>>
    /\ UNCHANGED geoFrame

\* fetchVehicleLocation without a selected vehicle (lines 101-107).
VehicleUnselected ==
    /\ vehicleLocation' = Null
    /\ currentGeofenceStatus' = NotSelected
    /\ effectPending' = (effectPending \/ vehicleLocation # Null)
    /\ UNCHANGED <<zones, zonesPc, zonesEvaluated>>
    /\ UNCHANGED geoFrame

\* The effect on [vehicleLocation, zones] runs.
GeofenceEffect ==
    /\ effectPending
    /\ LET outcome == EvaluateGeofence(vehicleLocation, zones)
       IN  /\ currentGeofenceStatus' = outcome.status
           /\ zonesEvaluated' = outcome.evaluated
    /\ effectPending' = FALSE
    /\ UNCHANGED <<vehicleLocation, zones, zonesPc>>
    /\ UNCHANGED geoFrame

GeoNext ==
    \/ ZonesLoaded
    \/ ZonesFailed
    \/ LocationLoaded
    \/ LocationMissing
    \/ VehicleUnselected
    \/ GeofenceEffect

----------------------------------------------------------------------------
(* groupFaultsByDiagnostic                                                  *)

(* A FaultData event: diagnostic is null or an object whose name and id may *)
(* be missing or empty, faultState may be missing.  The id of an event is   *)
(* its position in the array the server returned.                           *)
Diagnostic(name, id) == Some([name |-> name, id |-> id])

FaultKind(diagnostic, faultState) ==
    [diagnostic |-> diagnostic, faultState |-> faultState]

FaultKinds ==
    { FaultKind(Diagnostic(Some("EngineTemp"), Some("DiagnosticA")),
                Some("Active")),
      FaultKind(Diagnostic(Some("EngineTemp"), Some("DiagnosticA")),
                Some("Pending")),
      \* no name, and an id that reads like the name above; no faultState
      FaultKind(Diagnostic(Some(""), Some("EngineTemp")), Null),
      FaultKind(Null, Some("Active")),
      FaultKind(Diagnostic(Null, Null), Some("Inactive")),
      \* a name that every object inherits from Object.prototype
      FaultKind(Diagnostic(Some("toString"), Some("DiagnosticB")),
                Some("Active")) }

MaxFaults == 3

\* FaultDetailModal shows faultInstances.slice(0, 10).
RecentInstancesShown == 10

FaultArray(kinds, dates) ==
    [i \in 1..Len(kinds) |->
        [id |-> i, diagnostic |-> kinds[i].diagnostic,
         faultState |-> kinds[i].faultState, dateTime |-> dates[i]]]

\* The kinds and the dateTimes of an array of n events of every kind.
KindsOf(n) == [1..n -> FaultKinds]

DatesOf(n) == [1..n -> DateTimes]

\* Arrays of one event more than FaultDetailModal shows, all of one
\* diagnostic, at the first and the last dateTime.
LongFaultArray(dates) ==
    FaultArray([i \in 1..(RecentInstancesShown + 1) |->
                   FaultKind(Diagnostic(Some("EngineTemp"),
                                        Some("DiagnosticA")),
                             Some("Active"))],
               dates)

LongDates == [1..(RecentInstancesShown + 1) -> {1, MaxDateTime}]

\* A string operand of ||: null, undefined and '' are falsy.
Truthy(s) == s # Null /\ s[1] # ""

\* fault.diagnostic?.name || fault.diagnostic?.id || 'Unknown'
DiagnosticKey(fault) ==
    IF fault.diagnostic # Null /\ Truthy(fault.diagnostic[1].name)
    THEN fault.diagnostic[1].name[1]
    ELSE IF fault.diagnostic # Null /\ Truthy(fault.diagnostic[1].id)
         THEN fault.diagnostic[1].id[1]
         ELSE "Unknown"

\* const grouped = {}: the property names an empty object inherits.
ObjectPrototypeKeys ==
    {"constructor", "hasOwnProperty", "isPrototypeOf", "propertyIsEnumerable",
     "toLocaleString", "toString", "valueOf", "__proto__"}

\* The own properties of grouped are kept in insertion order.
OwnIndex(grouped, key) ==
    {i \in 1..Len(grouped) : grouped[i].diagnosticName = key}

\* Lines 65-75.
NewGroup(key, fault) ==
    [ diagnosticName |-> key,
      diagnosticId |-> IF fault.diagnostic = Null THEN Null
                       ELSE fault.diagnostic[1].id,
      count |-> 0,
      activeFaults |-> 0,
      inactiveFaults |-> 0,
      mostRecentDate |-> fault.dateTime,
      oldestDate |-> fault.dateTime,
      faultInstances |-> <<>> ]

\* A test that takes every faultState that is present for active.
IsActiveWhenPresent(fault) == fault.faultState # Null

\* fault.faultState === 'Active'
IsActive(fault) == fault.faultState = Some("Active")

\* A date range whose upper end stays at the first event of the group.
LaterDateKept(mostRecentDate, dateTime) == mostRecentDate

\* if (new Date(fault.dateTime) > new Date(group.mostRecentDate))
\*     group.mostRecentDate = fault.dateTime
LaterDate(mostRecentDate, dateTime) ==
    IF dateTime > mostRecentDate THEN dateTime ELSE mostRecentDate

\* Lines 78-112 on an own group.
UpdateGroup(group, fault) ==
    [ group EXCEPT
        !.count = @ + 1,
        !.activeFaults = IF IsActive(fault) THEN @ + 1 ELSE @,
        !.inactiveFaults = IF IsActive(fault) THEN @ ELSE @ + 1,
        !.mostRecentDate = LaterDate(@, fault.dateTime),
        !.oldestDate = IF fault.dateTime < @ THEN fault.dateTime ELSE @,
        !.faultInstances = Append(@, [id |-> fault.id,
                                      dateTime |-> fault.dateTime,
                                      faultState |-> fault.faultState]) ]

\* One call of the forEach callback (lines 61-113).  When the key is not an
\* own property but an inherited one, grouped[key] is truthy, no group is
\* created, and group.faultInstances.push fails on undefined: a TypeError.
AddFault(acc, fault) ==
    LET key == DiagnosticKey(fault)
        own == OwnIndex(acc.grouped, key)
    IN  IF acc.thrown THEN acc
        ELSE IF own # {}
        THEN LET i == CHOOSE i \in own : TRUE
             IN  [acc EXCEPT !.grouped[i] = UpdateGroup(@, fault)]
        ELSE IF key \in ObjectPrototypeKeys
        THEN [acc EXCEPT !.thrown = TRUE]
        ELSE [acc EXCEPT
                !.grouped = Append(@, UpdateGroup(NewGroup(key, fault),
                                                  fault))]

RECURSIVE GroupedAfter(_, _)
GroupedAfter(fs, n) ==
    IF n = 0 THEN [grouped |-> <<>>, thrown |-> FALSE]
    ELSE AddFault(GroupedAfter(fs, n - 1), fs[n])

\* Array.prototype.sort with (a, b) => new Date(b.mostRecentDate) -
\* new Date(a.mostRecentDate): stable, descending.
RECURSIVE InsertGroupDesc(_, _)
InsertGroupDesc(x, s) ==
    IF s = <<>> THEN <<x>>
    ELSE IF Head(s).mostRecentDate >= x.mostRecentDate
         THEN <<Head(s)>> \o InsertGroupDesc(x, Tail(s))
         ELSE <<x>> \o s

RECURSIVE SortGroupsPrefix(_, _)
SortGroupsPrefix(s, n) ==
    IF n = 0 THEN <<>> ELSE InsertGroupDesc(s[n], SortGroupsPrefix(s, n - 1))

\* The groups left in the order of Object.values.
SortGroupsOmitted(s) == s

SortGroupsByMostRecentDesc(s) == SortGroupsPrefix(s, Len(s))

\* What a call gives its caller: an array, or an exception with a message.
Returned(value) == [kind |-> "returned", value |-> value, message |-> ""]

Thrown(message) == [kind |-> "thrown", value |-> <<>>, message |-> message]

NotCalled == [kind |-> "none", value |-> <<>>, message |-> ""]

PushOnUndefined == "Cannot read properties of undefined (reading 'push')"

groupFaultsByDiagnostic(fs) ==
    LET acc == GroupedAfter(fs, Len(fs))
    IN  IF acc.thrown THEN Thrown(PushOnUndefined)
        ELSE Returned(SortGroupsByMostRecentDesc(acc.grouped))

----------------------------------------------------------------------------
(* fetchFaultCodes and fetchFaultData                                       *)

(* response.data of the FaultData request: a result array, an error object  *)
(* whose message may be missing, or neither.                                *)
FaultResult(fs) == [kind |-> "result", result |-> fs, message |-> Null]

FaultError(message) ==
    [kind |-> "error", result |-> <<>>, message |-> message]

FaultNoResult == [kind |-> "neither", result |-> <<>>, message |-> Null]

\* The error axios.post rejects with; its message may be empty.
FaultRejection(message) ==
    [kind |-> "rejected", result |-> <<>>, message |-> message]

\* The payloads without a result array.
FaultPayloadsWithoutResult ==
    {FaultError(Null), FaultError(Some("InvalidUserException")),
     FaultNoResult}

FaultRejections ==
    {FaultRejection(Some("Network Error")), FaultRejection(Some(""))}

\* An array handed to groupFaultsByDiagnostic as it came.
SortFaultsOmitted(result) == result

\* result.sort((a, b) => new Date(b.dateTime) - new Date(a.dateTime))
SortFaultsNewestFirst(result) == SortByDateTimeDesc(result)

\* An error payload answered with an empty array.
ErrorBranchReturnsEmpty(response) == Returned(<<>>)

\* throw new Error(response.data.error.message || 'Failed to fetch fault
\* codes.'), rethrown by the catch of line 47.
ErrorBranch(response) ==
    Thrown(IF Truthy(response.message) THEN response.message[1]
           ELSE "Failed to fetch fault codes.")

\* Lines 33-50 on a resolved request.  An exception of the grouping is
\* caught and rethrown as well.
fetchFaultCodes(response) ==
    IF response.kind = "result"
    THEN groupFaultsByDiagnostic(SortFaultsNewestFirst(response.result))
    ELSE IF response.kind = "error"
         THEN ErrorBranch(response)
         ELSE Returned(<<>>)

\* err.message || 'Failed to fetch fault codes'
FaultsErrorText(message) ==
    IF message # "" THEN message ELSE "Failed to fetch fault codes"

FaultInit ==
    /\ faultPc = "idle"
    /\ faults = <<>>
    /\ faultResponse = FaultNoResult
    /\ faultOutcome = NotCalled
    /\ groupedFaultCodes = <<>>
    /\ faultsError = Null
    /\ isLoadingFaults = FALSE

\* A caller invokes the exported groupFaultsByDiagnostic(faults).
GroupCall ==
    /\ faultPc = "idle"
    /\ \/ \E n \in 0..MaxFaults :
             \E kinds \in KindsOf(n), dates \in DatesOf(n) :
                 faults' = FaultArray(kinds, dates)
       \/ \E dates \in LongDates : faults' = LongFaultArray(dates)
    /\ faultPc' = "grouping"
    /\ UNCHANGED <<faultResponse, faultOutcome, groupedFaultCodes,
                   faultsError, isLoadingFaults>>
    /\ UNCHANGED faultFrame

\* Lines 59-118.
GroupReturn ==
    /\ faultPc = "grouping"
    /\ faultOutcome' = groupFaultsByDiagnostic(faults)
    /\ faultPc' = "grouped"
    /\ UNCHANGED <<faults, faultResponse, groupedFaultCodes, faultsError,
                   isLoadingFaults>>
    /\ UNCHANGED faultFrame

\* fetchFaultData with a session and a vehicle (lines 194-198): the flags
\* are set and fetchFaultCodes awaits axios.post.
FaultDataCall ==
    /\ faultPc = "idle"
    /\ isLoadingFaults' = TRUE
    /\ faultsError' = Null
    /\ faultPc' = "await"
    /\ UNCHANGED <<faults, faultResponse, faultOutcome, groupedFaultCodes>>
    /\ UNCHANGED faultFrame

\* What fetchFaultData does with the outcome of fetchFaultCodes (lines
\* 198-205).
FaultDataSettles(outcome) ==
    /\ faultOutcome' = outcome
    /\ IF outcome.kind = "returned"
       THEN /\ groupedFaultCodes' = outcome.value
            /\ UNCHANGED faultsError
       ELSE /\ faultsError' = Some(FaultsErrorText(outcome.message))
            /\ UNCHANGED groupedFaultCodes
    /\ isLoadingFaults' = FALSE
    /\ faultPc' = "done"

FaultsResolvedWith(response) ==
    /\ faultResponse' = response
    /\ FaultDataSettles(fetchFaultCodes(response))

\* The request resolves.
FaultsResolved ==
    /\ faultPc = "await"
    /\ \/ \E n \in 0..MaxFaults :
             \E kinds \in KindsOf(n), dates \in DatesOf(n) :
                 FaultsResolvedWith(FaultResult(FaultArray(kinds, dates)))
       \/ \E dates \in LongDates :
             FaultsResolvedWith(FaultResult(LongFaultArray(dates)))
       \/ \E response \in FaultPayloadsWithoutResult :
             FaultsResolvedWith(response)
    /\ UNCHANGED faults
    /\ UNCHANGED faultFrame

\* The request rejects: fetchFaultCodes rethrows the error (lines 47-50).
FaultsRejected ==
    /\ faultPc = "await"
    /\ \E rejection \in FaultRejections :
        /\ faultResponse' = rejection
        /\ FaultDataSettles(Thrown(rejection.message[1]))
    /\ UNCHANGED faults
    /\ UNCHANGED faultFrame

FaultNext ==
    \/ GroupCall
    \/ GroupReturn
    \/ FaultDataCall
    \/ FaultsResolved
    \/ FaultsRejected

----------------------------------------------------------------------------
(* combineAccelerometerData                                                 *)

(* Bound on the number of samples that the three primary series hold        *)
(* together.                                                                *)
MaxReadings == 3

\* reading.data of a StatusData sample: missing, or a number in m/s^2.
Acceleration == {Null, Some(0), Some(1)}

Reading(dateTime, data) == [dateTime |-> dateTime, data |-> data]

AccReadings == {Reading(t, a) : t \in DateTimes, a \in Acceleration}

\* reading.data || 0
DataOrZero(data) == IF data = Null \/ data[1] = 0 THEN 0 ELSE data[1]

\* The entry that readingsMap.set stores for a timestamp not seen before.
NewEntry(timestamp) ==
    [dateTime |-> timestamp, accelerationX |-> 0, accelerationY |-> 0,
     accelerationZ |-> 0]

\* Position of the key in readingsMap (a Map keeps the insertion order of its
\* keys), 0 when readingsMap.has(timestamp) is false.
RECURSIVE KeyIndex(_, _, _)
KeyIndex(readingsMap, timestamp, n) ==
    IF n = 0 THEN 0
    ELSE IF KeyIndex(readingsMap, timestamp, n - 1) # 0
         THEN KeyIndex(readingsMap, timestamp, n - 1)
         ELSE IF readingsMap[n].dateTime = timestamp THEN n ELSE 0

\* A fresh entry appended for every reading, the key already present or not.
WithFreshEntry(readingsMap, timestamp) ==
    Append(readingsMap, NewEntry(timestamp))

\* if (!readingsMap.has(timestamp)) readingsMap.set(timestamp, {...})
WithEntry(readingsMap, timestamp) ==
    IF KeyIndex(readingsMap, timestamp, Len(readingsMap)) = 0
    THEN Append(readingsMap, NewEntry(timestamp))
    ELSE readingsMap

\* The forEach callback of one axis.
ProcessReading(readingsMap, axis, reading) ==
    LET present == WithEntry(readingsMap, reading.dateTime)
        i == KeyIndex(present, reading.dateTime, Len(present))
    IN  [present EXCEPT ![i][axis] = DataOrZero(reading.data)]

\* axisData.forEach over the first n readings.
RECURSIVE ProcessAxis(_, _, _, _)
ProcessAxis(readingsMap, axis, axisData, n) ==
    IF n = 0 THEN readingsMap
    ELSE ProcessReading(ProcessAxis(readingsMap, axis, axisData, n - 1),
                        axis, axisData[n])

\* Array.from(readingsMap.values()) returned as it is.
SortReadingsOmitted(readings) == readings

\* .sort((a, b) => new Date(a.dateTime) - new Date(b.dateTime))
SortReadingsAsc(readings) == SortByDateTimeAsc(readings)

combineAccelerometerData(xAxisData, yAxisData, zAxisData) ==
    LET afterX == ProcessAxis(<<>>, "accelerationX", xAxisData,
                              Len(xAxisData))
        afterY == ProcessAxis(afterX, "accelerationY", yAxisData,
                              Len(yAxisData))
        afterZ == ProcessAxis(afterY, "accelerationZ", zAxisData,
                              Len(zAxisData))
    IN  SortReadingsAsc(afterZ)

----------------------------------------------------------------------------
(* fetchAccelerometerDataAlternative                                        *)

alternativeDiagnostics ==
    << "DiagnosticAccelerometerReverseGId",
       "DiagnosticAccelerometerLeftGId",
       "DiagnosticAccelerometerDownGId",
       "DiagnosticAccelerationForwardBrakingId",
       "DiagnosticAccelerationSidewaysLeftId",
       "DiagnosticAccelerationSidewaysRightId" >>

\* The series the server holds for the i-th alternative diagnostic when it
\* has n samples: the samples carry the number of the diagnostic, every
\* second one has no data.
AlternativeSeries(i, n) ==
    [j \in 1..n |-> Reading(j, IF j % 2 = 1 THEN Some(i) ELSE Null)]

\* response.data.result of the alternative MultiCall: one series per call.
AlternativeResults(lengths) ==
    [i \in 1..Len(alternativeDiagnostics) |->
        AlternativeSeries(i, lengths[i])]

AlternativeLengths == [1..Len(alternativeDiagnostics) -> 0..MaxSeriesLen]

\* current.length >= best.length: the later series wins a tie.
LongerOrEqual(current, best) == Len(current) >= Len(best)

\* current.length > best.length
Longer(current, best) == Len(current) > Len(best)

\* results.reduce((best, current) => ..., results[0] || []) over the first n
\* series.
RECURSIVE BestResult(_, _)
BestResult(results, n) ==
    IF n = 0 THEN results[1]
    ELSE LET best == BestResult(results, n - 1)
         IN  IF Longer(results[n], best) THEN results[n] ELSE best

\* bestResult.map(reading => ({...}))
SingleAxis(reading) ==
    [dateTime |-> reading.dateTime,
     accelerationX |-> DataOrZero(reading.data),
     accelerationY |-> 0,
     accelerationZ |-> 0]

\* The value fetchAccelerometerDataAlternative resolves to.  A rejection of
\* axios.post is caught and [] is returned (lines 558-561); the function
\* never rejects.
fetchAccelerometerDataAlternative(response) ==
    IF response.kind = "rejected" THEN Returned(<<>>)
    ELSE IF response.kind # "result" \/ Len(response.result) = 0
         THEN Returned(<<>>)
         ELSE LET bestResult ==
                      BestResult(response.result, Len(response.result))
              IN  Returned([k \in 1..Len(bestResult) |->
                               SingleAxis(bestResult[k])])

----------------------------------------------------------------------------
(* fetchAccelerometerData                                                   *)

\* err.message of a rejected axios.post.
NetworkError == "Network Error"

\* The three series cut out of one run of samples.
AxisResults(readings, i, j) ==
    << SubSeq(readings, 1, i), SubSeq(readings, i + 1, j),
       SubSeq(readings, j + 1, Len(readings)) >>

\* Results with fewer than three series.
IncompleteResults == { <<>>, << <<>> >>, << <<>>, <<>> >> }

\* if (!results || results.length < 3)
Incomplete(response) ==
    response.kind # "result" \/ Len(response.result) < 3

\* !xAxisData.length && !yAxisData.length && !zAxisData.length
NoPrimaryData(results) ==
    Len(results[1]) = 0 /\ Len(results[2]) = 0 /\ Len(results[3]) = 0

\* throw new Error(`Failed to fetch accelerometer data: ${err.message}`)
FailedToFetch(message) ==
    Thrown(<<"Failed to fetch accelerometer data: ", message>>)

AccInit ==
    /\ accPc = "idle"
    /\ accPrimary = Null
    /\ accAlternative = Null
    /\ accCalls = <<>>
    /\ accOutcome = NotCalled

\* fetchAccelerometerData is called: the primary MultiCall is posted.
AccCall ==
    /\ accPc = "idle"
    /\ accPc' = "primary"
    /\ accCalls' = <<"primary">>
    /\ UNCHANGED <<accPrimary, accAlternative, accOutcome>>
    /\ UNCHANGED accFrame

\* Lines 458-475 on the resolved primary response.
AccPrimaryResolvedWith(response) ==
    /\ accPrimary' = Some(response)
    /\ IF Incomplete(response)
       THEN /\ accOutcome' = Returned(<<>>)
            /\ accPc' = "done"
            /\ UNCHANGED accCalls
       ELSE IF NoPrimaryData(response.result)
            THEN /\ accPc' = "alternative"
                 /\ accCalls' = Append(accCalls, "alternative")
                 /\ UNCHANGED accOutcome
            ELSE /\ accOutcome' =
                        Returned(combineAccelerometerData(
                            response.result[1], response.result[2],
                            response.result[3]))
                 /\ accPc' = "done"
                 /\ UNCHANGED accCalls
    /\ UNCHANGED accAlternative

\* The primary MultiCall resolves with three series.
AccPrimaryResolved ==
    /\ accPc = "primary"
    /\ \E n \in 0..MaxReadings :
          \E readings \in [1..n -> AccReadings] :
              \E i \in 0..n :
                  \E j \in i..n :
                      AccPrimaryResolvedWith(
                          ResultPayload(AxisResults(readings, i, j)))
    /\ UNCHANGED accFrame

\* The primary MultiCall resolves with an error payload or with fewer than
\* three series.
AccPrimaryIncomplete ==
    /\ accPc = "primary"
    /\ \/ AccPrimaryResolvedWith(ErrorPayload)
       \/ \E results \in IncompleteResults :
             AccPrimaryResolvedWith(ResultPayload(results))
    /\ UNCHANGED accFrame

\* The primary MultiCall rejects: the catch block posts the alternative one.
AccPrimaryRejected ==
    /\ accPc = "primary"
    /\ accPrimary' = Some(Rejected)
    /\ accPc' = "alternative"
    /\ accCalls' = Append(accCalls, "alternative")
    /\ UNCHANGED <<accAlternative, accOutcome>>
    /\ UNCHANGED accFrame

\* What fetchAccelerometerData settles with once the alternative function
\* has settled: its value on both paths, and in the catch block an Error
\* with the message of the primary failure if it threw (lines 481-486).
AfterAlternative(primary, outcome) ==
    IF primary.kind = "rejected" /\ outcome.kind = "thrown"
    THEN FailedToFetch(NetworkError)
    ELSE outcome

AccAlternativeSettles(response) ==
    /\ accAlternative' = Some(response)
    /\ accOutcome' = AfterAlternative(accPrimary[1],
                         fetchAccelerometerDataAlternative(response))
    /\ accPc' = "done"
    /\ UNCHANGED <<accPrimary, accCalls>>

\* The alternative MultiCall resolves with one series per diagnostic.
AccAlternativeResolved ==
    /\ accPc = "alternative"
    /\ \E lengths \in AlternativeLengths :
          AccAlternativeSettles(ResultPayload(AlternativeResults(lengths)))
    /\ UNCHANGED accFrame

\* The alternative MultiCall resolves with an error payload or with an empty
\* result.
AccAlternativeEmpty ==
    /\ accPc = "alternative"
    /\ \/ AccAlternativeSettles(ErrorPayload)
       \/ AccAlternativeSettles(ResultPayload(<<>>))
    /\ UNCHANGED accFrame

\* The alternative MultiCall rejects.
AccAlternativeRejected ==
    /\ accPc = "alternative"
    /\ AccAlternativeSettles(Rejected)
    /\ UNCHANGED accFrame

AccNext ==
    \/ AccCall
    \/ AccPrimaryResolved
    \/ AccPrimaryIncomplete
    \/ AccPrimaryRejected
    \/ AccAlternativeResolved
    \/ AccAlternativeEmpty
    \/ AccAlternativeRejected

----------------------------------------------------------------------------
(* GForceChart: fetchGForceData                                             *)

(* Bound on the number of readings of a trip.                               *)
MaxSamples == 3

\* m/s^2 per g, as the divisor is written in the code: 9.81.
StandardGravity == Rat(981, 100)

\* An acceleration of k quarter-thousandths of g, in m/s^2.  Readings on this
\* grid with k odd or a multiple of 4 are never half-way between two
\* thousandths of g.
QuarterMilliG(k) == Rat(981 * k, 400000)

AccelerometerReading(t, x, y, z) ==
    [dateTime |-> t,
     accelerationX |-> QuarterMilliG(x),
     accelerationY |-> QuarterMilliG(y),
     accelerationZ |-> QuarterMilliG(z)]

\* The accelerations explored, per axis, in quarter-thousandths of g.
AccelerationVectors ==
    { <<3, 0, 0>>, <<7, 0, 0>>, <<-3, -4, 0>>, <<0, 0, 7>>, <<0, 0, 0>> }

\* The array fetchAccelerometerData resolves to: the n-th reading was taken
\* at time n.
AccelerometerArray(vectors) ==
    [n \in 1..Len(vectors) |->
        AccelerometerReading(n, vectors[n][1], vectors[n][2], vectors[n][3])]

RatAdd(a, b) ==
    LET g == Gcd(a.den, b.den)
    IN  Rat(a.num * (b.den \div g) + b.num * (a.den \div g),
            (a.den \div g) * b.den)

RatLess(a, b) == a.num * b.den < b.num * a.den

\* The integer square root, by bisection: the largest r in lo..hi with
\* r * r <= n.
RECURSIVE IntegerSqrt(_, _, _)
IntegerSqrt(n, lo, hi) ==
    IF lo = hi THEN lo
    ELSE LET mid == (lo + hi + 1) \div 2
         IN  IF mid * mid <= n THEN IntegerSqrt(n, mid, hi)
             ELSE IntegerSqrt(n, lo, mid - 1)

\* Math.sqrt on a fraction in lowest terms whose numerator and denominator
\* are squares, which the accelerations explored make of every sum of
\* squares.
Sqrt(q) ==
    Rat(IntegerSqrt(q.num, 0, 4000), IntegerSqrt(q.den, 0, 4000))

\* Number.prototype.toFixed(3) followed by parseFloat: the nearest multiple
\* of 1/1000, the sign set aside.  Half-way between two multiples the digits
\* depend on the binary representation of the double, which a fraction does
\* not carry: both neighbours are outcomes.
ToFixedOutcomes(q) ==
    LET scaled == Abs(q.num) * 1000
        lower == scaled \div q.den
        twice == 2 * (scaled % q.den)
        digits == IF twice < q.den THEN {lower}
                  ELSE IF twice > q.den THEN {lower + 1}
                       ELSE {lower, lower + 1}
    IN  {Rat(Sign(q.num) * n, 1000) : n \in digits}

\* toFixed(3) of a value that is not half-way between two multiples.
ToFixed(q) == CHOOSE r \in ToFixedOutcomes(q) : TRUE

\* const gForceX = reading.accelerationX / 9.81, and Y and Z alike
GForce(acceleration) == RatDiv(acceleration, StandardGravity)

\* Math.sqrt(gForceX * gForceX + gForceY * gForceY + gForceZ * gForceZ)
TotalGForce(reading) ==
    LET gForceX == GForce(reading.accelerationX)
        gForceY == GForce(reading.accelerationY)
        gForceZ == GForce(reading.accelerationZ)
    IN  Sqrt(RatAdd(RatAdd(RatMul(gForceX, gForceX),
                           RatMul(gForceY, gForceY)),
                    RatMul(gForceZ, gForceZ)))

\* The callback of accelerometerData.map (lines 52-69); index counts from 1.
Processed(reading, index) ==
    [time |-> reading.dateTime,
     gForceX |-> ToFixed(GForce(reading.accelerationX)),
     gForceY |-> ToFixed(GForce(reading.accelerationY)),
     gForceZ |-> ToFixed(GForce(reading.accelerationZ)),
     totalGForce |-> ToFixed(TotalGForce(reading)),
     index |-> index]

ProcessedData(readings) ==
    [n \in 1..Len(readings) |-> Processed(readings[n], n)]

\* The unrounded totals, for comparison.
FullPrecisionValues(readings) ==
    [n \in 1..Len(readings) |-> TotalGForce(readings[n])]

\* const gForceValues = processedData.map(d => d.totalGForce)
GForceValues(processedData) ==
    [n \in 1..Len(processedData) |-> processedData[n].totalGForce]

\* Math.max(...gForceValues) and Math.min(...gForceValues)
MaxValue(values) ==
    LET i == CHOOSE i \in 1..Len(values) :
                 \A j \in 1..Len(values) : ~RatLess(values[i], values[j])
    IN  values[i]

MinValue(values) ==
    LET i == CHOOSE i \in 1..Len(values) :
                 \A j \in 1..Len(values) : ~RatLess(values[j], values[i])
    IN  values[i]

\* gForceValues.reduce((sum, val) => sum + val, 0) over the first n values
RECURSIVE SumValues(_, _)
SumValues(values, n) ==
    IF n = 0 THEN RatOfInt(0)
    ELSE RatAdd(SumValues(values, n - 1), values[n])

\* ... / gForceValues.length
Average(values) ==
    RatDiv(SumValues(values, Len(values)), RatOfInt(Len(values)))

Stats(maxGForce, minGForce, avgGForce, totalDataPoints) ==
    [maxGForce |-> maxGForce, minGForce |-> minGForce,
     avgGForce |-> avgGForce, totalDataPoints |-> totalDataPoints]

\* useState({maxGForce: 0, minGForce: 0, avgGForce: 0, totalDataPoints: 0})
NoStats == Stats(RatOfInt(0), RatOfInt(0), RatOfInt(0), 0)

NoAccelerometerData == "No accelerometer data available for this trip"

GfInit ==
    /\ gfPc = "idle"
    /\ accelerometerData = <<>>
    /\ gForceData = <<>>
    /\ stats = NoStats
    /\ gForceError = Null

\* fetchGForceData with a trip selected: setIsLoading(true), setError(null),
\* the request is made.  isLoading is true exactly while gfPc is "await".
GfCall ==
    /\ gfPc = "idle"
    /\ gfPc' = "await"
    /\ gForceError' = Null
    /\ UNCHANGED <<accelerometerData, gForceData, stats>>
    /\ UNCHANGED gfFrame

\* Lines 52-83 on a non-empty array.
GfProcess(readings) ==
    LET processedData == ProcessedData(readings)
        gForceValues == GForceValues(processedData)
    IN  /\ \E avgGForce \in ToFixedOutcomes(Average(gForceValues)) :
              stats' = Stats(ToFixed(MaxValue(gForceValues)),
                             ToFixed(MinValue(gForceValues)),
                             avgGForce, Len(processedData))
        /\ gForceData' = processedData
        /\ UNCHANGED gForceError

\* fetchAccelerometerData resolves.
GfResolved ==
    /\ gfPc = "await"
    /\ \E n \in 0..MaxSamples :
          \E vectors \in [1..n -> AccelerationVectors] :
              /\ accelerometerData' = AccelerometerArray(vectors)
              /\ IF n = 0
                 THEN /\ gForceError' = Some(NoAccelerometerData)
                      /\ gForceData' = <<>>
                      /\ UNCHANGED stats
                 ELSE GfProcess(AccelerometerArray(vectors))
    /\ gfPc' = "done"
    /\ UNCHANGED gfFrame

\* fetchAccelerometerData settles every failure of its requests with an
\* array (see AfterAlternative): the catch block of fetchGForceData is not
\* entered.

GfNext ==
    \/ GfCall
    \/ GfResolved

----------------------------------------------------------------------------
(* retryApiCall and isRecoverableError                                      *)

(* Bound on the maxRetries argument.                                        *)
MaxRetries == 3

\* The delay arguments explored, in milliseconds; makeApiCall passes 1000
\* unless the caller sets retryDelay.
Delays == {1000, 250}

\* An error thrown by apiCall: the fields that isRecoverableError reads.
ApiError(name, code, request, status) ==
    [name |-> name, code |-> code, request |-> request, response |-> status]

\* axios: no response received.
NetworkFailure == ApiError("AxiosError", "ERR_NETWORK", TRUE, Null)

\* axios: the timeout of the request expired.
TimedOut == ApiError("AxiosError", "ECONNABORTED", TRUE, Null)

\* axios: the server answered with an error status.
HttpFailure(status) ==
    ApiError("AxiosError", "ERR_BAD_RESPONSE", TRUE, Some(status))

\* makeApiCall: new Error(response.data.error.message || 'API Error')
ApiFailure == ApiError("Error", "", FALSE, Null)

\* The request was aborted before a connection was made.
Aborted == ApiError("AbortError", "", FALSE, Null)

ApiErrors ==
    {NetworkFailure, TimedOut, HttpFailure(503), HttpFailure(404),
     ApiFailure, Aborted}

recoverableStatuses == {408, 429, 500, 502, 503, 504}

\* Every error retried.
AlwaysRecoverable(error) == TRUE

\* isRecoverableError; error is null or one error.
isRecoverableError(error) ==
    IF error = Null THEN FALSE
    ELSE IF error[1].request /\ error[1].response = Null THEN TRUE
    ELSE IF error[1].name = "AbortError" \/ error[1].code = "ECONNABORTED"
         THEN TRUE
    ELSE IF error[1].response # Null
         THEN error[1].response[1] \in recoverableStatuses
    ELSE FALSE

\* The outcome of one invocation of apiCall.
Succeeded == [ok |-> TRUE, error |-> Null]
Failed(error) == [ok |-> FALSE, error |-> Some(error)]

\* What apiCall resolves with.
ApiResult == "result"

RetryInit ==
    /\ retryPc = "idle"
    /\ maxRetries = 0
    /\ delay = 0
    /\ attempt = 0
    /\ lastError = Null
    /\ retryAttempts = <<>>
    /\ retryWaits = <<>>
    /\ retryOutcome = NotCalled

\* retryApiCall(apiCall, maxRetries, delay): attempt = 1, apiCall is invoked.
RetryCall ==
    /\ retryPc = "idle"
    /\ \E m \in 1..MaxRetries : maxRetries' = m
    /\ \E d \in Delays : delay' = d
    /\ attempt' = 1
    /\ retryPc' = "calling"
    /\ UNCHANGED <<lastError, retryAttempts, retryWaits, retryOutcome>>
    /\ UNCHANGED retryFrame

\* apiCall resolves: return result.
RetryResolved ==
    /\ retryPc = "calling"
    /\ retryAttempts' = Append(retryAttempts, Succeeded)
    /\ retryOutcome' = Returned(ApiResult)
    /\ retryPc' = "done"
    /\ UNCHANGED <<maxRetries, delay, attempt, lastError, retryWaits>>
    /\ UNCHANGED retryFrame

\* apiCall rejects: the catch block.  After the last attempt the loop ends
\* and lastError is thrown.
RetryFailed ==
    /\ retryPc = "calling"
    /\ \E error \in ApiErrors :
        /\ lastError' = Some(error)
        /\ retryAttempts' = Append(retryAttempts, Failed(error))
        /\ IF ~isRecoverableError(Some(error))
           THEN /\ retryOutcome' = Thrown(error)
                /\ retryPc' = "done"
                /\ UNCHANGED retryWaits
           ELSE IF attempt < maxRetries
                THEN /\ retryWaits' = Append(retryWaits, delay * attempt)
                     /\ retryPc' = "waiting"
                     /\ UNCHANGED retryOutcome
                ELSE /\ retryOutcome' = Thrown(error)
                     /\ retryPc' = "done"
                     /\ UNCHANGED retryWaits
    /\ UNCHANGED <<maxRetries, delay, attempt>>
    /\ UNCHANGED retryFrame

\* The timer of the wait fires: attempt++, apiCall is invoked again.
RetryWaitOver ==
    /\ retryPc = "waiting"
    /\ attempt' = attempt + 1
    /\ retryPc' = "calling"
    /\ UNCHANGED <<maxRetries, delay, lastError, retryAttempts, retryWaits,
                   retryOutcome>>
    /\ UNCHANGED retryFrame

RetryNext ==
    \/ RetryCall
    \/ RetryResolved
    \/ RetryFailed
    \/ RetryWaitOver

----------------------------------------------------------------------------
(* VehicleMap: the effect on [selectedVehicleId, sessionInfo] and the three *)
(* requests it starts (fetchVehicleLocation, fetchFuelData, fetchFaultData) *)

(* Bound on the number of changes of the selection.                         *)
MaxSelections == 2

Vehicles == {"A", "B"}

\* The data each request feeds: vehicleLocation, fuelData, groupedFaultCodes.
Requests == {"Location", "Fuel", "Faults"}

\* The response is applied only if its vehicle is still the selected one.
AppliedIfCurrent(vehicle, selected) == selected = Some(vehicle)

\* The setters are called on the response of a request whatever the selection
\* is when it arrives; nothing compares the two.
Applied(vehicle, selected) == TRUE

NoneInFlight == [v \in Vehicles |-> 0]

\* A response that arrived: its vehicle and what it carried.
Arrival(vehicle, outcome) == [vehicle |-> vehicle, outcome |-> outcome]

\* The component is mounted with a session and no vehicle selected: the
\* effect has run, fetchVehicleLocation has taken its early return.
SelInit ==
    /\ selectedVehicleId = Null
    /\ inFlight = [r \in Requests |-> NoneInFlight]
    /\ isLoading = [r \in Requests |-> FALSE]
    /\ shown = [r \in Requests |-> Null]
    /\ lastSettled = [r \in Requests |-> Null]
    /\ selections = 0

\* The user selects a vehicle: the effect calls the three functions, each
\* sets its loading flag and makes its request.
SelectVehicle ==
    /\ selections < MaxSelections
    /\ \E v \in Vehicles :
        /\ selectedVehicleId # Some(v)
        /\ selectedVehicleId' = Some(v)
        /\ inFlight' = [r \in Requests |->
                           [inFlight[r] EXCEPT ![v] = @ + 1]]
    /\ isLoading' = [r \in Requests |-> TRUE]
    /\ selections' = selections + 1
    /\ UNCHANGED <<shown, lastSettled>>
    /\ UNCHANGED selFrame

\* The selection is cleared: fetchVehicleLocation takes its early return
\* (lines 101-107), the other two return at once.
ClearSelection ==
    /\ selections < MaxSelections
    /\ selectedVehicleId # Null
    /\ selectedVehicleId' = Null
    /\ shown' = [shown EXCEPT !["Location"] = Null]
    /\ isLoading' = [isLoading EXCEPT !["Location"] = FALSE]
    /\ lastSettled' = [lastSettled EXCEPT !["Location"] = Null]
    /\ selections' = selections + 1
    /\ UNCHANGED inFlight
    /\ UNCHANGED selFrame

\* The finally block of each function, and the bookkeeping of the request.
Settles(r, v, outcome) ==
    /\ inFlight[r][v] > 0
    /\ inFlight' = [inFlight EXCEPT ![r][v] = @ - 1]
    /\ isLoading' = [isLoading EXCEPT ![r] = FALSE]
    /\ lastSettled' = [lastSettled EXCEPT ![r] = Some(Arrival(v, outcome))]
    /\ UNCHANGED <<selectedVehicleId, selections>>

\* A request resolves with data of its vehicle: setVehicleLocation({...}),
\* setFuelData({...}), setGroupedFaultCodes(groupedFaults).
ResponseWithData ==
    /\ \E r \in Requests, v \in Vehicles :
        /\ Settles(r, v, "data")
        /\ shown' = IF Applied(v, selectedVehicleId)
                    THEN [shown EXCEPT ![r] = Some(v)]
                    ELSE shown
    /\ UNCHANGED selFrame

\* The DeviceStatusInfo request resolves without a status:
\* setVehicleLocation(null).
LocationWithoutData ==
    /\ \E v \in Vehicles :
        /\ Settles("Location", v, "empty")
        /\ shown' = IF Applied(v, selectedVehicleId)
                    THEN [shown EXCEPT !["Location"] = Null]
                    ELSE shown
    /\ UNCHANGED selFrame

\* A request fails: the catch block leaves the data as it is.
ResponseFailed ==
    /\ \E r \in Requests, v \in Vehicles : Settles(r, v, "failed")
    /\ UNCHANGED shown
    /\ UNCHANGED selFrame

SelNext ==
    \/ SelectVehicle
    \/ ClearSelection
    \/ ResponseWithData
    \/ LocationWithoutData
    \/ ResponseFailed

----------------------------------------------------------------------------
Init ==
    /\ OdoInit /\ FuelInit /\ EffInit /\ GeoInit /\ PipInit /\ FaultInit
    /\ AccInit /\ GfInit /\ RetryInit /\ SelInit

Next ==
    \/ OdoNext
    \/ OdoCallAgain
    \/ FuelNext
    \/ EffNext
    \/ GeoNext
    \/ PipNext
    \/ FaultNext
    \/ AccNext
    \/ GfNext
    \/ RetryNext
    \/ SelNext

Spec == Init /\ [][Next]_vars

\* One invocation of fetchOdometer.
SpecOdometer == Init /\ [][OdoNext]_vars

\* One invocation, every request eventually settling and every continuation
\* eventually run by the event loop.
SpecOdometerFair == SpecOdometer /\ WF_vars(OdoNext)

\* Invocation after invocation.
SpecOdometerRepeated == Init /\ [][OdoNext \/ OdoCallAgain]_vars

\* One invocation of fetchFuelConsumption.
SpecFuel == Init /\ [][FuelNext]_vars

\* One invocation of calculateFuelEfficiency.
SpecEfficiency == Init /\ [][EffNext]_vars

\* The zones request, the location refreshes and the geofence effect.
SpecGeofence == Init /\ [][GeoNext]_vars

\* One call of isPointInPolygon.
SpecPolygon == Init /\ [][PipNext]_vars

\* One call of groupFaultsByDiagnostic, or one call of fetchFaultData.
SpecFaults == Init /\ [][FaultNext]_vars

\* One call of fetchAccelerometerData.
SpecAccelerometer == Init /\ [][AccNext]_vars

\* One call of fetchGForceData.
SpecGForce == Init /\ [][GfNext]_vars

\* One call of retryApiCall.
SpecRetry == Init /\ [][RetryNext]_vars

\* The selection changing and the requests of the three functions settling.
SpecSelection == Init /\ [][SelNext]_vars

----------------------------------------------------------------------------
(* Properties of fetchOdometer                                              *)

MinOf(S) == CHOOSE x \in S : \A y \in S : x <= y

IsPrefix(s, t) == Len(s) <= Len(t) /\ s = SubSeq(t, 1, Len(s))

OdoFailed(e) == e.outcome \in {"rejected", "error"}

\* The candidate answered with a series whose latest reading is non-null.
OdoHasData(e) == e.outcome = "result" /\ ~e.empty /\ ~IsNull(e.latest)

OdoAnsweredWithData == {i \in 1..Len(odoLog) : OdoHasData(odoLog[i])}

\* C1: the result is the latest reading of the first candidate, in priority
\* order, that has data; once that candidate has answered, no request is
\* issued for a later candidate.  Without such a candidate every candidate is
\* asked and the result is null.
C1_FirstCandidateWithDataWins ==
    /\ IsPrefix(odoCalls, diagnostics)
    /\ OdoAnsweredWithData # {} =>
          Len(odoCalls) = MinOf(OdoAnsweredWithData)
    /\ odoPc = "done" =>
          IF OdoAnsweredWithData = {}
          THEN latestOdometer = Null /\ odoCalls = diagnostics
          ELSE latestOdometer = odoLog[MinOf(OdoAnsweredWithData)].latest

\* C1 witness: A answered with an empty series, B with 500, the result is 500
\* and only A and B were asked.
C1_Witness ==
    /\ odoPc = "done"
    /\ Len(odoLog) = 2
    /\ odoLog[1].outcome = "result" /\ odoLog[1].empty
    /\ odoLog[2].latest = Some(500)
    /\ latestOdometer = Some(500)
    /\ Len(odoCalls) = 2

\* C2: a candidate whose series holds a sample with non-null data settles the
\* resolution: the result is the latest such sample's data (also when a more
\* recent sample of the series has null data) and no later candidate is asked.
C2_FirstNonNullSampleOfSeries ==
    odoPc = "done" =>
        \A i \in 1..Len(odoLog) :
            (odoLog[i].outcome = "result" /\ ~IsNull(odoLog[i].latestNonNull))
                => /\ latestOdometer = odoLog[i].latestNonNull
                   /\ Len(odoCalls) = i

\* C3: a failed fetch never aborts the resolution: no exception escapes, the
\* candidate after a failed one is asked, the result is the one obtained with
\* each failed candidate counted as an empty series, and it is null when every
\* candidate failed or had no data.
C3_FailedFetchIsNotFatal ==
    /\ ~odoThrown
    /\ odoPc = "done" =>
          /\ \A i \in 1..Len(odoLog) :
                (OdoFailed(odoLog[i]) /\ i < Len(diagnostics))
                    => Len(odoCalls) > i
          /\ LET asEmpty == [i \in 1..Len(odoLog) |->
                               IF OdoFailed(odoLog[i])
                               THEN [outcome |-> "result", empty |-> TRUE,
                                     latest |-> Null, latestNonNull |-> Null]
                               ELSE odoLog[i]]
                 withData == {i \in 1..Len(asEmpty) : OdoHasData(asEmpty[i])}
             IN  IF withData = {}
                 THEN latestOdometer = Null
                 ELSE latestOdometer = asEmpty[MinOf(withData)].latest

\* C3 witness: A rejected, B answered with an error payload, C holds 500.
C3_Witness ==
    /\ odoPc = "done"
    /\ Len(odoLog) = 3
    /\ odoLog[1].outcome = "rejected"
    /\ odoLog[2].outcome = "error"
    /\ latestOdometer = Some(500)

\* No two requests in flight, requests issued in list order, each one after
\* the previous one has settled.
OdoOneAtATime ==
    /\ Cardinality(odoInFlight) <= 1
    /\ IsPrefix(odoCalls, diagnostics)
    /\ IF odoPc = "await"
       THEN /\ odoInFlight = {diagnostics[Len(odoCalls)]}
            /\ Len(odoLog) = Len(odoCalls) - 1
       ELSE /\ odoInFlight = {}
            /\ Len(odoLog) = Len(odoCalls)

\* C4: candidates are requested strictly in list order, one request at a
\* time, each after the previous one has settled; with every request
\* eventually settling, the invocation ends, after at most one request per
\* candidate.
C4_SequentialAndTerminating ==
    /\ []OdoOneAtATime
    /\ (odoPc \in {"loop", "await", "return"}) ~> (odoPc = "done")

\* C4 witness: the fifth request is in flight, the four before it settled.
C4_Witness ==
    /\ odoPc = "await"
    /\ Len(odoCalls) = Len(diagnostics)
    /\ Len(odoLog) = Len(diagnostics) - 1

\* C8: what the caller gets when every request failed differs from what it
\* gets when every request succeeded with an empty series.
C8_FailureDistinctFromNoData ==
    \A a, b \in odoOutcomes :
        (a.requests = "allFailed" /\ b.requests = "allEmpty")
            => a.returned # b.returned

----------------------------------------------------------------------------
(* Properties of fetchFuelConsumption                                       *)

\* The candidates of a slot that answered with a non-null latest reading.
FuelAnswered(slot) ==
    {i \in 1..Len(fuelSeen) :
        FuelSlot(fuelDiagnostics[i]) = slot /\ ~IsNull(fuelSeen[i])}

\* C5: each slot of the returned snapshot holds the reading of the first
\* candidate, in list order, that matches the slot and has a non-null latest
\* reading; a later candidate of the same slot does not overwrite it.
C5_FirstSlotMatchWins ==
    fuelPc = "done" =>
        \A slot \in {"totalFuel", "fuelLevel"} :
            fuelData[slot] = IF FuelAnswered(slot) = {}
                             THEN Null
                             ELSE fuelSeen[MinOf(FuelAnswered(slot))]

----------------------------------------------------------------------------
(* Properties of calculateFuelEfficiency                                    *)

\* After the ascending stable sort the first sample is the first-arrived of
\* those with the minimal dateTime, the last one the last-arrived of those
\* with the maximal dateTime.
EarliestIndex(s) ==
    CHOOSE i \in 1..Len(s) :
        /\ \A j \in 1..Len(s) : s[i].dateTime <= s[j].dateTime
        /\ \A j \in 1..(i - 1) : s[i].dateTime < s[j].dateTime

LastLatestIndex(s) ==
    CHOOSE i \in 1..Len(s) :
        /\ \A j \in 1..Len(s) : s[j].dateTime <= s[i].dateTime
        /\ \A j \in (i + 1)..Len(s) : s[j].dateTime < s[i].dateTime

\* last minus first, by dateTime
Delta(s) == s[LastLatestIndex(s)].data - s[EarliestIndex(s)].data

DistinctDateTimes(s) ==
    \A i, j \in 1..Len(s) : i # j => s[i].dateTime # s[j].dateTime

Permuted(s) == {[i \in 1..Len(s) |-> s[p[i]]] : p \in Permutations(1..Len(s))}

EffTwoSeries == effResponse.kind = "result" /\ Len(effResponse.result) >= 2

\* a/b = c/d, for fractions with non-zero denominators
SameFraction(a, b) == a.num * b.den = b.num * a.den

\* The returned record is the one of the formulas: distance in km, fuelUsed
\* in litres, efficiency = fuelUsed / distance_km * 100.
EffMatchesFormula(odo, fuel) ==
    /\ effResult # Null
    /\ SameFraction(effResult[1].distance, [num |-> Delta(odo), den |-> 1000])
    /\ effResult[1].fuelUsed = Delta(fuel)
    /\ SameFraction(effResult[1].efficiency,
                    [num |-> Delta(fuel) * 1000 * 100, den |-> Delta(odo)])

\* C6: the result is null when either series is empty and when the odometer
\* delta (last minus first, by dateTime) is 0, whatever the fuel delta, a
\* single odometer sample included; the call resolves and no division is
\* performed.
C6_NullWithoutDistance ==
    (effPc = "done" /\ EffTwoSeries) =>
        LET odo == effResponse.result[1]
            fuel == effResponse.result[2]
        IN  (odo = <<>> \/ fuel = <<>> \/ Delta(odo) = 0)
                => (effResult = Null /\ ~effDivided)

\* C6 witness: one odometer sample, two fuel samples with a fuel delta of 1.
C6_Witness ==
    /\ effPc = "done"
    /\ EffTwoSeries
    /\ Len(effResponse.result[1]) = 1
    /\ Len(effResponse.result[2]) = 2
    /\ Delta(effResponse.result[2]) = 1
    /\ effResult = Null

\* C7 as stated: for non-empty series with a non-zero odometer delta the
\* result follows the formulas, and it is the same for every order in which
\* the samples of the two series arrive.
C7_OrderIndependentEfficiency ==
    (effPc = "done" /\ EffTwoSeries) =>
        LET odo == effResponse.result[1]
            fuel == effResponse.result[2]
        IN  (odo # <<>> /\ fuel # <<>> /\ Delta(odo) # 0)
                => /\ EffMatchesFormula(odo, fuel)
                   /\ \A o \in Permuted(odo), f \in Permuted(fuel) :
                         CalcEfficiency(ResultPayload(<<o, f>>)).value
                             = effResult

\* C7 amended: the result follows the formulas, with the earliest sample the
\* first-arrived of the minimal dateTime and the latest the last-arrived of
\* the maximal dateTime; it is independent of the arrival order when no two
\* samples of a series share a dateTime.
C7_EfficiencyByDateTime ==
    (effPc = "done" /\ EffTwoSeries) =>
        LET odo == effResponse.result[1]
            fuel == effResponse.result[2]
        IN  (odo # <<>> /\ fuel # <<>> /\ Delta(odo) # 0)
                => /\ EffMatchesFormula(odo, fuel)
                   /\ (DistinctDateTimes(odo) /\ DistinctDateTimes(fuel))
                        => \A o \in Permuted(odo), f \in Permuted(fuel) :
                              CalcEfficiency(ResultPayload(<<o, f>>)).value
                                  = effResult

\* C7 witness: odometer 11000 then 1000 arriving newest first, fuel 5 then 6:
\* 10 km, 1 litre, 10 L/100km.
C7_Witness ==
    /\ effPc = "done"
    /\ effResponse = ResultPayload(
          << << [dateTime |-> 2, data |-> 11000],
                [dateTime |-> 1, data |-> 1000] >>,
             << [dateTime |-> 1, data |-> 5],
                [dateTime |-> 2, data |-> 6] >> >>)
    /\ effResult # Null
    /\ effResult[1].efficiency = [num |-> 10, den |-> 1]
    /\ effResult[1].distance = [num |-> 10, den |-> 1]
    /\ effResult[1].fuelUsed = 1

----------------------------------------------------------------------------
(* Properties of the geofence status                                        *)

\* The effect has run on the current location and zones.
GeofenceSettled == ~effectPending /\ vehicleLocation # Null

\* The zones of the list, by index, that the vehicle position lies in.
MatchingZones ==
    {i \in 1..Len(zones) : ZoneMatches(zones[i], vehicleLocation[1])}

\* C9: with a vehicle position and an empty zone list the status is "No
\* geofences loaded or configured.", never "Outside all geofences"; the
\* latter is set only when there is at least one zone and none matches.
C9_NoZonesIsNotOutside ==
    GeofenceSettled =>
        /\ zones = <<>> => currentGeofenceStatus = NoGeofences
        /\ currentGeofenceStatus = OutsideAll
              => (Len(zones) >= 1 /\ MatchingZones = {})

\* C9 witness: the zones request answered with an empty list, a position is
\* known and the effect has run.
C9_Witness ==
    /\ GeofenceSettled
    /\ zonesPc = "done"
    /\ zones = <<>>
    /\ currentGeofenceStatus = NoGeofences

\* C10: when the position lies in several zones, the zone reported is the
\* one with the smallest index in the list, for polygons and circles alike,
\* and the zones after it are not evaluated.
C10_FirstMatchingZoneWins ==
    (GeofenceSettled /\ MatchingZones # {}) =>
        /\ currentGeofenceStatus = Inside(zones[MinOf(MatchingZones)])
        /\ zonesEvaluated = MinOf(MatchingZones)

\* C10 witness: the position lies in a circle and in a polygon listed after
\* it; the circle is reported.
C10_Witness ==
    /\ GeofenceSettled
    /\ Len(zones) = 2
    /\ MatchingZones = {1, 2}
    /\ zones[1].geometryType = "Circle"
    /\ zones[2].geometryType = "Polygon"
    /\ currentGeofenceStatus = Inside(zones[1])
    /\ zonesEvaluated = 1

\* The circle zones of the list, by index, that carry a center and a radius,
\* a radius of 0 included.
CirclesWithRadius ==
    {i \in 1..Len(zones) :
        /\ zones[i].geometryType = "Circle"
        /\ zones[i].center # Null
        /\ zones[i].radius # Null}

\* The distance from the vehicle position to the center of circle zone i.
DistanceToCenter(i) ==
    calculateDistance(vehicleLocation[1],
                      GridPosition(zones[i].center[1].latitude,
                                   zones[i].center[1].longitude))

NoEarlierMatch(i) == \A j \in 1..(i - 1) : j \notin MatchingZones

Malformed(zone) ==
    \/ /\ zone.geometryType = "Polygon"
       /\ (zone.points = Null \/ Len(zone.points[1]) < 3)
    \/ /\ zone.geometryType = "Circle"
       /\ (zone.center = Null \/ zone.radius = Null)
    \/ zone.geometryType \notin {"Polygon", "Circle"}

\* The well-formed zones of the list, by index, that the position lies in.
WellFormedMatchingZones ==
    {i \in MatchingZones : ~Malformed(zones[i])}

\* C12: a malformed zone is skipped: it is never the zone reported, and the
\* zones after it are still evaluated, so that the first well-formed
\* matching zone of the list is reported Inside, and "Outside all geofences"
\* when a non-empty list has none.
C12_MalformedZonesSkipped ==
    GeofenceSettled =>
        /\ \A i \in 1..Len(zones) :
              Malformed(zones[i]) => currentGeofenceStatus # Inside(zones[i])
        /\ WellFormedMatchingZones # {} =>
              currentGeofenceStatus
                  = Inside(zones[MinOf(WellFormedMatchingZones)])
        /\ (WellFormedMatchingZones = {} /\ zones # <<>>) =>
              currentGeofenceStatus = OutsideAll

----------------------------------------------------------------------------
(* Properties of isPointInPolygon                                           *)

PipReturned == pipPc = "done"

\* C13: for every point, a ring of length 0, 1 or 2 gives false.
C13_ShortRingIsOutside ==
    (PipReturned /\ Len(pipRing) < 3) => pipResult = FALSE

\* The bounds of a rectangular ring.
MaxOf(S) == CHOOSE x \in S : \A y \in S : y <= x

RingLatitudes == {pipRing[i][1] : i \in 1..Len(pipRing)}

RingLongitudes == {pipRing[i][2] : i \in 1..Len(pipRing)}

Below(n, q) == NumLess(RatOfInt(n), q)

Above(n, q) == NumLess(q, RatOfInt(n))

StrictlyInsideRing ==
    /\ Below(MinOf(RingLatitudes), pipPoint.latitude)
    /\ Above(MaxOf(RingLatitudes), pipPoint.latitude)
    /\ Below(MinOf(RingLongitudes), pipPoint.longitude)
    /\ Above(MaxOf(RingLongitudes), pipPoint.longitude)

StrictlyOutsideRing ==
    \/ Above(MinOf(RingLatitudes), pipPoint.latitude)
    \/ Below(MaxOf(RingLatitudes), pipPoint.latitude)
    \/ Above(MinOf(RingLongitudes), pipPoint.longitude)
    \/ Below(MaxOf(RingLongitudes), pipPoint.longitude)

\* C14: for the ring of an axis-aligned rectangle, in either orientation and
\* from any starting vertex, a point strictly inside the rectangle gives true
\* and a point strictly outside gives false.
C14_RectangleInsideOutside ==
    (PipReturned /\ pipRing \in ProperRectangleRings) =>
        /\ StrictlyInsideRing => pipResult = TRUE
        /\ StrictlyOutsideRing => pipResult = FALSE

\* C14 witness: the square [[0,0],[0,2],[2,2],[2,0]] with (1,1) inside.
C14_Witness ==
    /\ PipReturned
    /\ pipRing = Rectangle(0, 0, 2, 2)
    /\ pipPoint = GridPosition(1, 1)
    /\ pipResult = TRUE

\* The same square, from another vertex and clockwise, with (5,5) outside.
C14_WitnessOutside ==
    /\ PipReturned
    /\ pipRing = Rotated(Reversed(Rectangle(0, 0, 2, 2)), 1)
    /\ pipPoint = GridPosition(5, 5)
    /\ pipResult = FALSE

----------------------------------------------------------------------------
(* Properties of groupFaultsByDiagnostic, fetchFaultCodes, fetchFaultData   *)

\* groupFaultsByDiagnostic has returned to a direct caller.
GroupingReturned == faultPc = "grouped" /\ faultOutcome.kind = "returned"

\* The groups returned, by either entry point.
OutputGroups ==
    IF faultOutcome.kind = "returned" THEN faultOutcome.value ELSE <<>>

InstanceDates(group) ==
    {group.faultInstances[k].dateTime : k \in 1..Len(group.faultInstances)}

ActiveInstances(group) ==
    {k \in 1..Len(group.faultInstances) :
        group.faultInstances[k].faultState = Some("Active")}

\* C15: in every output group count = activeFaults + inactiveFaults =
\* length(faultInstances), activeFaults being the number of events whose
\* faultState is 'Active'; any other faultState, a missing one included,
\* counts as inactive.
C15_CountsAddUp ==
    \A g \in 1..Len(OutputGroups) :
        LET group == OutputGroups[g]
        IN  /\ group.count = group.activeFaults + group.inactiveFaults
            /\ group.count = Len(group.faultInstances)
            /\ group.activeFaults = Cardinality(ActiveInstances(group))

\* C15 witness: the "EngineTemp" group with count 3, 2 active and 1
\* inactive, the inactive one being an event without faultState.
C15_Witness ==
    /\ GroupingReturned
    /\ \E g \in 1..Len(OutputGroups) :
          /\ OutputGroups[g].diagnosticName = "EngineTemp"
          /\ OutputGroups[g].count = 3
          /\ OutputGroups[g].activeFaults = 2
          /\ OutputGroups[g].inactiveFaults = 1
          /\ \E k \in 1..3 :
                OutputGroups[g].faultInstances[k].faultState = Null

\* C16: in every output group mostRecentDate is the maximum and oldestDate
\* the minimum dateTime of the group's instances, in whatever order the
\* events came.
C16_DateRange ==
    \A g \in 1..Len(OutputGroups) :
        LET group == OutputGroups[g]
        IN  /\ group.mostRecentDate = MaxOf(InstanceDates(group))
            /\ group.oldestDate = MinOf(InstanceDates(group))

\* C16 witness: a group whose events came oldest first, then a later one,
\* then an older one again.
C16_Witness ==
    /\ GroupingReturned
    /\ \E g \in 1..Len(OutputGroups) :
          LET group == OutputGroups[g]
          IN  /\ Len(group.faultInstances) = 3
              /\ group.faultInstances[1].dateTime
                    < group.faultInstances[2].dateTime
              /\ group.faultInstances[3].dateTime
                    < group.faultInstances[2].dateTime
              /\ group.mostRecentDate = group.faultInstances[2].dateTime
              /\ group.oldestDate = group.faultInstances[1].dateTime

\* C17: the groups are returned by mostRecentDate descending: each group's
\* mostRecentDate is greater than or equal to that of the group after it.
C17_GroupsNewestFirst ==
    \A g \in 1..(Len(OutputGroups) - 1) :
        OutputGroups[g].mostRecentDate >= OutputGroups[g + 1].mostRecentDate

\* C17 witness: two groups, the one whose first event came later in the
\* input is the more recent one and is returned first.
C17_Witness ==
    /\ GroupingReturned
    /\ Len(OutputGroups) = 2
    /\ OutputGroups[1].mostRecentDate > OutputGroups[2].mostRecentDate
    /\ OutputGroups[1].faultInstances[1].id
          > OutputGroups[2].faultInstances[1].id

\* The groups whose instances hold the input event at position i.
GroupsHolding(i) ==
    {g \in 1..Len(OutputGroups) :
        \E k \in 1..Len(OutputGroups[g].faultInstances) :
            OutputGroups[g].faultInstances[k].id = i}

RECURSIVE SumOfCounts(_, _)
SumOfCounts(groups, n) ==
    IF n = 0 THEN 0 ELSE groups[n].count + SumOfCounts(groups, n - 1)

\* C18: the groups partition the input: the call returns, every input event
\* is in exactly one group, two events are in the same group exactly when
\* they have the same key, there are as many groups as distinct keys, and
\* the counts add up to the number of input events.
C18_GroupsPartitionInput ==
    faultPc = "grouped" =>
        /\ faultOutcome.kind = "returned"
        /\ \A i \in 1..Len(faults) : Cardinality(GroupsHolding(i)) = 1
        /\ \A i, j \in 1..Len(faults) :
              (GroupsHolding(i) = GroupsHolding(j))
                  <=> (DiagnosticKey(faults[i]) = DiagnosticKey(faults[j]))
        /\ Len(OutputGroups)
              = Cardinality({DiagnosticKey(faults[i]) : i \in 1..Len(faults)})
        /\ SumOfCounts(OutputGroups, Len(OutputGroups)) = Len(faults)

\* fetchFaultData has the groups of a resolved request.
FaultCodesReturned == faultPc = "done" /\ faultOutcome.kind = "returned"

\* The instances FaultDetailModal shows and those it leaves out.
Shown(group) ==
    {k \in 1..Len(group.faultInstances) : k <= RecentInstancesShown}

NotShown(group) ==
    {k \in 1..Len(group.faultInstances) : k > RecentInstancesShown}

\* C19: within every group the instances are in the order of the events in
\* the array that was grouped; through fetchFaultCodes, which sorts the events
\* newest first before grouping, the instances of every group are in
\* non-increasing dateTime order and the first ten are the ten most recent.
C19_InstancesKeepInputOrder ==
    /\ GroupingReturned =>
          \A g \in 1..Len(OutputGroups) :
              \A k \in 1..(Len(OutputGroups[g].faultInstances) - 1) :
                  OutputGroups[g].faultInstances[k].id
                      < OutputGroups[g].faultInstances[k + 1].id
    /\ FaultCodesReturned =>
          \A g \in 1..Len(groupedFaultCodes) :
              LET instances == groupedFaultCodes[g].faultInstances
              IN  /\ \A k \in 1..(Len(instances) - 1) :
                        /\ instances[k].dateTime >= instances[k + 1].dateTime
                        /\ instances[k].dateTime = instances[k + 1].dateTime
                              => instances[k].id < instances[k + 1].id
                  /\ \A k \in Shown(groupedFaultCodes[g]),
                        l \in NotShown(groupedFaultCodes[g]) :
                        instances[k].dateTime >= instances[l].dateTime

\* C19 witness: the server returned eleven events of one diagnostic, an old
\* one first and a recent one last; the old one is the instance left out.
C19_Witness ==
    /\ FaultCodesReturned
    /\ Len(faultResponse.result) = RecentInstancesShown + 1
    /\ faultResponse.result[1].dateTime
          < faultResponse.result[RecentInstancesShown + 1].dateTime
    /\ Len(groupedFaultCodes) = 1
    /\ NotShown(groupedFaultCodes[1]) # {}
    /\ groupedFaultCodes[1].faultInstances[1].id = RecentInstancesShown + 1

\* C20: an error payload and a rejected request both surface to fetchFaultData
\* as a thrown error and end with faultsError set; a result without events
\* gives an empty array, no error and zero groups; isLoadingFaults is false
\* in all three.
C20_ErrorEmptyDistinct ==
    faultPc = "done" =>
        /\ isLoadingFaults = FALSE
        /\ faultResponse.kind \in {"error", "rejected"} =>
              /\ faultOutcome.kind = "thrown"
              /\ faultsError # Null
              /\ faultsError[1] # ""
        /\ (faultResponse.kind = "result" /\ faultResponse.result = <<>>) =>
              /\ faultOutcome = Returned(<<>>)
              /\ faultsError = Null
              /\ groupedFaultCodes = <<>>

\* C20 witness: the request was answered with an error payload.
C20_Witness ==
    /\ faultPc = "done"
    /\ faultResponse = FaultError(Some("InvalidUserException"))
    /\ faultOutcome.kind = "thrown"
    /\ faultsError = Some("InvalidUserException")
    /\ isLoadingFaults = FALSE

----------------------------------------------------------------------------
(* Properties of fetchAccelerometerData                                     *)

\* The call has returned what combineAccelerometerData made of three series.
AccFused ==
    /\ accPc = "done"
    /\ accCalls = <<"primary">>
    /\ accPrimary[1].kind = "result"
    /\ Len(accPrimary[1].result) = 3

xAxisData == accPrimary[1].result[1]
yAxisData == accPrimary[1].result[2]
zAxisData == accPrimary[1].result[3]

DateTimesOf(series) == {series[i].dateTime : i \in 1..Len(series)}

\* What the samples of one axis say about time t: 0 without a sample at t,
\* else the data of the sample at t (of the last one in the series if there
\* are several), a sample without data counting as 0.
AxisValue(series, t) ==
    LET at == {i \in 1..Len(series) : series[i].dateTime = t}
    IN  IF at = {} THEN 0
        ELSE IF series[MaxOf(at)].data = Null THEN 0
             ELSE series[MaxOf(at)].data[1]

\* C21: the fused output has exactly one record per distinct dateTime of the
\* three series; each axis of a record is the data of that axis' sample at
\* exactly that dateTime, 0 for an axis without a sample at that dateTime.
C21_OneRecordPerDateTime ==
    AccFused =>
        LET out == accOutcome.value
            times == DateTimesOf(xAxisData) \cup DateTimesOf(yAxisData)
                        \cup DateTimesOf(zAxisData)
        IN  /\ DateTimesOf(out) = times
            /\ Len(out) = Cardinality(times)
            /\ \A i \in 1..Len(out) :
                /\ out[i].accelerationX = AxisValue(xAxisData, out[i].dateTime)
                /\ out[i].accelerationY = AxisValue(yAxisData, out[i].dateTime)
                /\ out[i].accelerationZ = AxisValue(zAxisData, out[i].dateTime)

\* C21 witness: an x sample at time 1 and a y sample at time 2, no z sample:
\* two records, each with one axis set.
C21_Witness ==
    /\ AccFused
    /\ xAxisData = <<Reading(1, Some(1))>>
    /\ yAxisData = <<Reading(2, Some(1))>>
    /\ zAxisData = <<>>
    /\ accOutcome.value =
          << [dateTime |-> 1, accelerationX |-> 1, accelerationY |-> 0,
              accelerationZ |-> 0],
             [dateTime |-> 2, accelerationX |-> 0, accelerationY |-> 1,
              accelerationZ |-> 0] >>

\* C22: the fused output is in ascending order of dateTime, whatever the
\* order of the samples in a series and across the series.
C22_FusedAscending ==
    AccFused =>
        \A i \in 1..Len(accOutcome.value) :
            \A j \in (i + 1)..Len(accOutcome.value) :
                accOutcome.value[i].dateTime < accOutcome.value[j].dateTime

\* C22 witness: the x series arrived latest sample first and the z series
\* holds a sample of the earlier time; the output starts with the earlier
\* time.
C22_Witness ==
    /\ AccFused
    /\ Len(xAxisData) = 2
    /\ xAxisData[1].dateTime > xAxisData[2].dateTime
    /\ Len(zAxisData) = 1
    /\ zAxisData[1].dateTime = xAxisData[2].dateTime
    /\ Len(accOutcome.value) = 2
    /\ accOutcome.value[1].dateTime = xAxisData[2].dateTime

\* The alternative request was answered with at least one series.
AccFellBack ==
    /\ accPc = "done"
    /\ accAlternative # Null
    /\ accAlternative[1].kind = "result"
    /\ Len(accAlternative[1].result) > 0

\* The index of the series with the most samples, the earliest on a tie.
MostSamples(results) ==
    CHOOSE b \in 1..Len(results) :
        /\ \A i \in 1..Len(results) : Len(results[i]) <= Len(results[b])
        /\ \A i \in 1..(b - 1) : Len(results[i]) < Len(results[b])

\* C23: after a primary response with three series the alternative call is
\* made exactly when all three are empty, and at most once; its result is
\* the alternative series with the most samples (the earliest on a tie),
\* sample by sample, as accelerationX with accelerationY = accelerationZ = 0.
C23_FallbackWhenAllEmpty ==
    /\ (/\ accPc \in {"alternative", "done"}
        /\ accPrimary[1].kind = "result"
        /\ Len(accPrimary[1].result) = 3)
       => /\ (accCalls = <<"primary", "alternative">>)
                <=> (\A a \in 1..3 : accPrimary[1].result[a] = <<>>)
          /\ accCalls \in {<<"primary">>, <<"primary", "alternative">>}
    /\ AccFellBack =>
          LET results == accAlternative[1].result
              best == results[MostSamples(results)]
              out == accOutcome.value
          IN  /\ accOutcome.kind = "returned"
              /\ Len(out) = Len(best)
              /\ \A k \in 1..Len(out) :
                    /\ out[k].dateTime = best[k].dateTime
                    /\ out[k].accelerationX =
                          (IF best[k].data = Null THEN 0 ELSE best[k].data[1])
                    /\ out[k].accelerationY = 0
                    /\ out[k].accelerationZ = 0

\* C23 witness: three empty primary series; of the alternative series the
\* second and the fifth are the longest, and the result is the second.
C23_Witness ==
    /\ AccFellBack
    /\ accPrimary[1].kind = "result"
    /\ \A a \in 1..3 : accPrimary[1].result[a] = <<>>
    /\ Len(accAlternative[1].result[1]) < MaxSeriesLen
    /\ Len(accAlternative[1].result[2]) = MaxSeriesLen
    /\ Len(accAlternative[1].result[5]) = MaxSeriesLen
    /\ Len(accOutcome.value) = MaxSeriesLen
    /\ accOutcome.value[1].accelerationX = 2

\* The arrays the primary path returns when only the x series has samples.
FusedFromXAlone ==
    {combineAccelerometerData(readings, <<>>, <<>>) :
        readings \in SeqsUpTo(AccReadings, MaxSeriesLen)}

\* C24: data that comes from the single-axis fallback is marked: the caller
\* can tell it from the data of a three-axis fusion.
C24_FallbackIsMarked ==
    (AccFellBack /\ accOutcome.value # <<>>)
        => accOutcome.value \notin FusedFromXAlone

\* C25: a failed primary call is followed by one alternative call; if that
\* fails too the call rejects with 'Failed to fetch accelerometer data: ...'
\* and does not resolve to an empty array; an error payload is reported as
\* an error as well.
C25_FailuresSurface ==
    accPc = "done" =>
        /\ accPrimary[1].kind = "rejected"
              => accCalls = <<"primary", "alternative">>
        /\ (/\ accPrimary[1].kind = "rejected"
            /\ accAlternative[1].kind = "rejected")
              => accOutcome = FailedToFetch(NetworkError)
        /\ accPrimary[1].kind = "error" => accOutcome.kind = "thrown"
        /\ (accAlternative # Null /\ accAlternative[1].kind = "error")
              => accOutcome.kind = "thrown"

----------------------------------------------------------------------------
(* Properties of fetchGForceData                                            *)

\* The statistics were computed from at least one reading, and the average
\* the code forms is not half-way between two thousandths, where its digits
\* are not determined here.
GfComputed ==
    /\ gfPc = "done"
    /\ accelerometerData # <<>>
    /\ Cardinality(ToFixedOutcomes(Average(GForceValues(gForceData)))) = 1

\* C26: maxGForce, minGForce and avgGForce are the maximum, the minimum and
\* the mean of the unrounded totalGForce of every reading, rounded to three
\* decimals once, for display; no rounded value enters the statistics.
C26_StatsFromFullPrecision ==
    GfComputed =>
        LET values == FullPrecisionValues(accelerometerData)
        IN  /\ stats.maxGForce \in ToFixedOutcomes(MaxValue(values))
            /\ stats.minGForce \in ToFixedOutcomes(MinValue(values))
            /\ stats.avgGForce \in ToFixedOutcomes(Average(values))
            /\ stats.totalDataPoints = Len(accelerometerData)

\* The same statement for the maximum and the minimum alone: rounding keeps
\* the order of the values, so they are not affected.
GfExtremesFromFullPrecision ==
    GfComputed =>
        LET values == FullPrecisionValues(accelerometerData)
        IN  /\ stats.maxGForce \in ToFixedOutcomes(MaxValue(values))
            /\ stats.minGForce \in ToFixedOutcomes(MinValue(values))

----------------------------------------------------------------------------
(* Properties of the selection effect                                       *)

NothingInFlight ==
    \A r \in Requests : \A v \in Vehicles : inFlight[r][v] = 0

\* The data on display is that of the response that arrived last.
LastResponseShown ==
    \A r \in Requests :
        (lastSettled[r] # Null /\ lastSettled[r][1].outcome = "data")
            => shown[r] = Some(lastSettled[r][1].vehicle)

\* A request leaves flight only when its own response is handled.
SettledNotCancelled ==
    \A r \in Requests : \A v \in Vehicles :
        inFlight'[r][v] < inFlight[r][v]
            => /\ lastSettled'[r] # Null
               /\ lastSettled'[r][1].vehicle = v

\* C27: a change of the selection cancels no request, and a response is
\* applied without a look at the selection: the data on display is that of
\* the response that arrived last, also when its vehicle is no longer the
\* selected one.
C27_StaleResponseApplied ==
    []LastResponseShown /\ [][SettledNotCancelled]_vars

\* C27 witness: B is selected, nothing is in flight, and location, fuel and
\* fault codes on display are those of A, whose responses arrived last.
C27_Witness ==
    /\ NothingInFlight
    /\ selectedVehicleId = Some("B")
    /\ \A r \in Requests :
        /\ shown[r] = Some("A")
        /\ lastSettled[r] = Some(Arrival("A", "data"))

\* C30: a loading flag is false only if no request of its kind is in flight.
C30_LoadingFlagsAccurate ==
    \A r \in Requests :
        ~isLoading[r] => \A v \in Vehicles : inFlight[r][v] = 0

----------------------------------------------------------------------------
(* Properties of retryApiCall                                               *)

\* The errors after which another attempt is due: no response received, a
\* timeout, an abort, or one of six HTTP statuses.
RetriedErrors ==
    {NetworkFailure, TimedOut, Aborted}
        \cup {HttpFailure(status) : status \in {408, 429, 500, 502, 503, 504}}

\* An attempt after which no other is made, whatever maxRetries is.
Decisive(outcome) == outcome.ok \/ outcome.error[1] \notin RetriedErrors

\* The invocations of apiCall made so far.
Invoked == Len(retryAttempts) + (IF retryPc = "calling" THEN 1 ELSE 0)

\* C28: apiCall is invoked until the first attempt that succeeds or fails
\* with a non-recoverable error, and at most maxRetries times; the call
\* resolves with the result of the successful attempt and rejects with the
\* error of the last attempt otherwise; the i-th wait lasts delay * i and
\* there is one wait between two attempts and none after the last.
C28_RetrySchedule ==
    LET n == Len(retryAttempts)
    IN  /\ Invoked <= maxRetries
        /\ \A i \in 1..(n - 1) : ~Decisive(retryAttempts[i])
        /\ retryPc \in {"calling", "waiting"}
              => \A i \in 1..n : ~Decisive(retryAttempts[i])
        /\ retryPc = "done"
              => /\ n >= 1
                 /\ Decisive(retryAttempts[n]) \/ n = maxRetries
                 /\ retryAttempts[n].ok
                       => /\ retryOutcome.kind = "returned"
                          /\ retryOutcome.value = ApiResult
                 /\ ~retryAttempts[n].ok
                       => /\ retryOutcome.kind = "thrown"
                          /\ retryOutcome.message = retryAttempts[n].error[1]
        /\ retryWaits = [i \in 1..Len(retryWaits) |-> delay * i]
        /\ Len(retryWaits) =
              (IF retryPc = "idle" THEN 0
               ELSE IF retryPc = "waiting" THEN n
                    ELSE Invoked - 1)

\* C28 witness: maxRetries attempts, each failed with a recoverable error,
\* the last with another error than the first; two waits were made and the
\* error thrown is the last one.
C28_Witness ==
    /\ retryPc = "done"
    /\ maxRetries = MaxRetries
    /\ Len(retryAttempts) = MaxRetries
    /\ \A i \in 1..MaxRetries : ~Decisive(retryAttempts[i])
    /\ retryAttempts[1].error # retryAttempts[MaxRetries].error
    /\ retryOutcome.kind = "thrown"
    /\ retryOutcome.message = retryAttempts[MaxRetries].error[1]
    /\ Len(retryWaits) = MaxRetries - 1
    /\ retryWaits[MaxRetries - 1] = delay * (MaxRetries - 1)

----------------------------------------------------------------------------
(* Properties of the geofence status across the two requests                *)

\* Both requests have been answered, a position is known and the effect has
\* run.
BothArrived == zonesPc = "done" /\ GeofenceSettled

\* The status is what the evaluation of the position against the zones gives.
StatusOfBoth ==
    BothArrived =>
        currentGeofenceStatus =
            EvaluateGeofence(vehicleLocation, zones).status

\* A new position or a new zone list schedules the effect.
ArrivalSchedulesEffect ==
    (zones' # zones \/ vehicleLocation' # vehicleLocation) => effectPending'

\* C29: once the zones and a position have both arrived, the status on
\* display is the evaluation of that position against those zones, in
\* whichever order the two arrived; a status computed from one of them alone
\* is computed again when the other arrives.
C29_StatusConfluent ==
    []StatusOfBoth /\ [][ArrivalSchedulesEffect]_vars

\* C29 witness: zones and position have arrived, the effect has run and the
\* status names a zone of the list.
C29_Witness ==
    /\ BothArrived
    /\ zones # <<>>
    /\ MatchingZones # {}
    /\ currentGeofenceStatus = Inside(zones[MinOf(MatchingZones)])

\* The position arrived first: the effect has run on it alone, the zones
\* have arrived since and the effect is due again.
LocationArrivedFirst ==
    /\ zonesPc = "done"
    /\ zones # <<>>
    /\ vehicleLocation # Null
    /\ currentGeofenceStatus = NoGeofences
    /\ effectPending

\* The zones arrived first: the effect has run on them alone, the position
\* has arrived since and the effect is due again.
ZonesArrivedFirst ==
    /\ zonesPc = "done"
    /\ zones # <<>>
    /\ vehicleLocation # Null
    /\ currentGeofenceStatus = NoLocation
    /\ effectPending

====
